---------------------------- MODULE Spec2Model ----------------------------
(***************************************************************************)
(* TimeCapsule: the validation, share/export codec and storage layers.     *)
(*                                                                         *)
(* JavaScript values are pairs <<type, payload>>; x[1] is the type, one of *)
(* undefined, null, boolean, number, string, array, object, x[2] the       *)
(* payload.                                                                *)
(* A number's payload is [int, frac, inf]: the value int + frac/10, or     *)
(* +/-Infinity when inf # 0 (JSON.parse yields Infinity for 1e999).        *)
(* A string's payload is its run-length encoding: a sequence of runs       *)
(* <<symbol, count>> with adjacent runs of different symbols.  The symbol  *)
(* " " is a whitespace character; every other symbol is one non-blank     *)
(* character.  The symbols "data:", "http:", "https:" and "ftp:" stand for *)
(* a URL scheme prefix, and the enumeration words ("past", "image", ...)   *)
(* for the literal of that name; each counts as one character.             *)
(* An object's payload is a record of its fields; a field the object does  *)
(* not have reads as undefined, as in JavaScript.                          *)
(***************************************************************************)
EXTENDS Integers, Sequences, FiniteSets, TLC

VARIABLES
    parsed,     \* validation: the value handed to validateImportedJSON
    vpc,        \* validation: "input", "validated", "revalidated"
    vres,       \* validation: the ValidationResult of the first call
    vres2,      \* validation: the ValidationResult of validating vres.data
    timeline,   \* codec: the capsules of the timeline being exported
    share,      \* codec: the call of generateShareableURL and its result
    exported,   \* codec: the file exportAsJSON has written
    opened,     \* codec: the address the viewer page was opened with
    location,   \* codec: the address the viewer page shows now
    ipc,        \* codec: "idle", "fetching", "done": the import of the page
    path,       \* codec: the import function that ran
    consulted,  \* codec: the query parameters the import looked at, in order
    result,     \* codec: what the import handed back
    page,       \* codec: the viewer page: history, fetches, what it shows
    store,      \* storage: the records of the `timelines` object store
    saved,      \* storage: the last saveCapsules call
    loaded,     \* storage: the last loadCapsules call and what it returned
    call,       \* storage: the last call on storage and what it answered
    embed,      \* embed: the parent script: iframe states and theme messages sent
    shadow,     \* embed: the parent script run on the trusted messages alone
    received,   \* embed: how many messages the parent page has received, and
                \* whether one of them came from another origin than the site
    requested,  \* embed: per iframe, the height of the last resize message the
                \* site origin sent from its window (Undefined: none yet)
    child,      \* embed: the embedded viewer: data-theme and the last sender
    importing,  \* import button: the `importing` flag of ImportMenuButton
    imp,        \* import button: where handleImportJSON stands, and its file
    hook,       \* editor: the useTimeline hook: timelineId, capsules, loading,
                \* error, and whether the component is mounted
    loads,      \* editor: the storage.loadCapsules calls in flight
    writes,     \* editor: the storage.saveCapsules calls in flight
    modal,      \* editor: isModalOpen and editingCapsule of Timeline, formData
    step,       \* editor: the last step of the editor, and the calls started
    now         \* the clock read by Date.now()

valVars == <<parsed, vpc, vres, vres2>>
codecVars == <<timeline, share, exported, opened, location, ipc, path, consulted, result,
              page>>
storeVars == <<store, saved, loaded, call>>
embedVars == <<embed, shadow, received, requested, child>>
importVars == <<importing, imp>>
editorVars == <<hook, loads, writes, modal, step>>
uiVars == <<importVars, editorVars>>
vars == <<valVars, codecVars, storeVars, embedVars, uiVars, now>>

-----------------------------------------------------------------------------
(* Bounds of the model *)

\* longest `capsules` list of a validated payload
MaxEntries == 3
\* the clock runs 1..MaxClock
MaxClock == 2
\* longest timeline exported, shared or imported
MaxCapsules == 3
\* most messages the page embedding the viewer receives
MaxMessages == 3
\* the storage calls one editor session starts
MaxCalls == 3

-----------------------------------------------------------------------------
(* JavaScript values *)

Undefined == <<"undefined", 0>>
Null == <<"null", 0>>
Bool(b) == <<"boolean", b>>
Num(i) == <<"number", [int |-> i, frac |-> 0, inf |-> 0]>>
NumFrac(i, f) == <<"number", [int |-> i, frac |-> f, inf |-> 0]>>
Infinity == <<"number", [int |-> 0, frac |-> 0, inf |-> 1]>>
\* NaN, which a message can carry (JSON cannot): inf is 2
NaN == <<"number", [int |-> 0, frac |-> 0, inf |-> 2]>>
IsNaN(x) == x[1] = "number" /\ x[2].inf = 2
Str(runs) == <<"string", runs>>
Word(w) == Str(<< <<w, 1>> >>)
Arr(s) == <<"array", s>>
Obj(r) == <<"object", r>>

\* typeof x
TypeOf(x) == IF x[1] \in {"null", "array"} THEN "object" ELSE x[1]

\* Array.isArray(x)
IsArray(x) == x[1] = "array"

\* ToBoolean(x): what `x ? a : b`, `!x` and `x && y` test
Truthy(x) ==
    CASE x[1] = "undefined" -> FALSE
      [] x[1] = "null" -> FALSE
      [] x[1] = "boolean" -> x[2]
      [] x[1] = "number" -> x[2].inf # 0 \/ x[2].int # 0 \/ x[2].frac # 0
      [] x[1] = "string" -> x[2] # <<>>
      [] OTHER -> TRUE

\* Math.floor(n) on a number payload
MathFloor(n) == [int |-> n.int, frac |-> 0, inf |-> n.inf]

\* Number.isInteger(n) on a number payload
IsInteger(n) == n.inf = 0 /\ n.frac = 0

-----------------------------------------------------------------------------
(* Strings *)

Range(s) == {s[i] : i \in DOMAIN s}

RECURSIVE StrLen(_)
\* str.length
StrLen(r) == IF r = <<>> THEN 0 ELSE r[1][2] + StrLen(Tail(r))

RECURSIVE Slice(_, _)
\* str.slice(0, n)
Slice(r, n) ==
    IF r = <<>> \/ n <= 0 THEN <<>>
    ELSE IF r[1][2] >= n THEN << <<r[1][1], n>> >>
    ELSE <<r[1]>> \o Slice(Tail(r), n - r[1][2])

\* str.trim()
Trim(r) ==
    LET l == IF r # <<>> /\ r[1][1] = " " THEN Tail(r) ELSE r
    IN  IF l # <<>> /\ l[Len(l)][1] = " " THEN SubSeq(l, 1, Len(l) - 1) ELSE l

\* str.startsWith('data:')
StartsWithData(r) == r # <<>> /\ r[1][1] = "data:"

\* new URL(str).protocol; "" when the constructor throws.  The URL parser
\* strips leading and trailing blanks before it looks for the scheme.
UrlProtocol(r) ==
    LET t == Trim(r)
    IN  IF t # <<>> /\ t[1][1] \in {"data:", "http:", "https:", "ftp:"}
        THEN t[1][1] ELSE ""

-----------------------------------------------------------------------------
(* Capsules (src/types/index.ts) *)

CapsuleFields == {"id", "year", "title", "type", "createdAt", "updatedAt",
                  "description", "mediaUrl", "mediaType", "mood", "milestone",
                  "colorSeed", "tags", "age"}

\* an object none of whose Capsule fields is set
EmptyCapsule == [f \in CapsuleFields |-> Undefined]

\* capsule.<f>: undefined on a primitive or an array, as in JavaScript
\* (reading a field of null or undefined throws: see Throws)
Field(c, f) ==
    IF c[1] = "object" /\ f \in DOMAIN c[2] THEN c[2][f] ELSE Undefined

\* whether reading a property of c throws a TypeError
Throws(c) == c[1] \in {"null", "undefined"}

-----------------------------------------------------------------------------
(* Validation (validation.ts) *)

\* the length limit of sanitizeString
MaxStringLength == 10000

\* sanitizeString(str)
sanitizeString(x) ==
    IF x[1] # "string" THEN Str(<<>>)
    ELSE Str(Slice(Trim(x[2]), MaxStringLength))

\* sanitizeURL(url)
sanitizeURL(x) ==
    IF x[1] # "string" THEN Undefined
    ELSE IF StartsWithData(x[2]) THEN x
    ELSE IF UrlProtocol(x[2]) \in {"http:", "https:"} THEN x
    ELSE Undefined

MediaTypes == {Word("image"), Word("video"), Word("link")}

\* validateMediaType(type)
validateMediaType(x) == IF x \in MediaTypes THEN x ELSE Undefined

Moods == {Word("joyful"), Word("reflective"), Word("challenging"),
          Word("transformative"), Word("peaceful"), Word("adventurous")}

\* validateMood(mood)
validateMood(x) == IF x \in Moods THEN x ELSE Undefined

\* tags.filter(t => typeof t === 'string').map(sanitizeString)
SanitizeTags(s) ==
    LET keep == SelectSeq(s, LAMBDA t : t[1] = "string")
    IN  [i \in DOMAIN keep |-> sanitizeString(keep[i])]

\* RequiredFieldsOk with the test of `type` left out
RequiredFieldsOk_NoTypeTest(c) ==
    /\ ~Throws(c)
    /\ TypeOf(Field(c, "id")) = "string"
    /\ TypeOf(Field(c, "year")) = "number"
    /\ TypeOf(Field(c, "title")) = "string"

\* RequiredFieldsOk with the test of `title` left out
RequiredFieldsOk_NoTitleTest(c) ==
    /\ ~Throws(c)
    /\ TypeOf(Field(c, "id")) = "string"
    /\ TypeOf(Field(c, "year")) = "number"
    /\ Field(c, "type") \in {Word("past"), Word("future")}

\* the required-fields test of validateAndSanitizeCapsule (TRUE = passes)
RequiredFieldsOk(c) ==
    /\ ~Throws(c)
    /\ TypeOf(Field(c, "id")) = "string"
    /\ TypeOf(Field(c, "year")) = "number"
    /\ TypeOf(Field(c, "title")) = "string"
    /\ Field(c, "type") \in {Word("past"), Word("future")}

\* the `sanitized` object validateAndSanitizeCapsule builds; t is Date.now()
SanitizedCapsule(c, t) ==
    Obj([id |-> sanitizeString(c[2].id),
         year |-> <<"number", MathFloor(c[2].year[2])>>,
         title |-> sanitizeString(c[2].title),
         type |-> c[2].type,
         createdAt |-> IF TypeOf(c[2].createdAt) = "number"
                       THEN c[2].createdAt ELSE Num(t),
         updatedAt |-> IF TypeOf(c[2].updatedAt) = "number"
                       THEN c[2].updatedAt ELSE Num(t),
         description |-> IF Truthy(c[2].description)
                         THEN sanitizeString(c[2].description) ELSE Undefined,
         mediaUrl |-> IF Truthy(c[2].mediaUrl) /\ TypeOf(c[2].mediaUrl) = "string"
                      THEN sanitizeURL(c[2].mediaUrl) ELSE Undefined,
         mediaType |-> validateMediaType(c[2].mediaType),
         mood |-> validateMood(c[2].mood),
         milestone |-> IF TypeOf(c[2].milestone) = "boolean"
                       THEN c[2].milestone ELSE Undefined,
         colorSeed |-> IF TypeOf(c[2].colorSeed) = "number"
                       THEN c[2].colorSeed ELSE Undefined,
         tags |-> IF IsArray(c[2].tags)
                  THEN Arr(SanitizeTags(c[2].tags[2])) ELSE Undefined,
         age |-> IF TypeOf(c[2].age) = "number"
                 THEN <<"number", MathFloor(c[2].age[2])>>
                 ELSE Undefined])

\* validateAndSanitizeCapsule(capsule)
validateAndSanitizeCapsule(c, t) ==
    IF RequiredFieldsOk(c)
    THEN [valid |-> TRUE, capsule |-> SanitizedCapsule(c, t)]
    ELSE [valid |-> FALSE, capsule |-> Undefined]

\* the ShareMetadata fields
EmptyMetadata == [name |-> Undefined, bio |-> Undefined,
                  profilePic |-> Undefined, sharedAt |-> Undefined]

\* !isNaN(new Date(str).getTime()): the symbol "date" is a parseable timestamp
IsDateString(r) == r = << <<"date", 1>> >>

\* validateAndSanitizeMetadata(metadata).  `sanitized.profilePic = ...` sets
\* the key even when sanitizeURL returns undefined, so Object.keys counts it.
validateAndSanitizeMetadata(m) ==
    IF m[1] # "object" THEN Undefined
    ELSE
      LET str(f) == Truthy(m[2][f]) /\ TypeOf(m[2][f]) = "string"
          keys == {f \in {"name", "bio", "profilePic"} : str(f)}
                  \cup {f \in {"sharedAt"} : str(f) /\ IsDateString(m[2][f][2])}
          sanitized ==
              [name |-> IF "name" \in keys
                        THEN sanitizeString(m[2].name) ELSE Undefined,
               bio |-> IF "bio" \in keys
                       THEN sanitizeString(m[2].bio) ELSE Undefined,
               profilePic |-> IF "profilePic" \in keys
                              THEN sanitizeURL(m[2].profilePic) ELSE Undefined,
               sharedAt |-> IF "sharedAt" \in keys
                            THEN m[2].sharedAt ELSE Undefined]
      IN  IF keys # {} THEN Obj(sanitized) ELSE Undefined

\* a ValidationResult with valid: false
Rejected(msg) ==
    [valid |-> FALSE, error |-> msg, data |-> Undefined, warnings |-> Undefined]

\* the warning pushed when invalidCount > 0
SkippedWarning(invalidCount) ==
    [count |-> invalidCount,
     text |-> IF invalidCount > 1
              THEN "capsules were skipped due to invalid data."
              ELSE "capsule was skipped due to invalid data."]

\* validateImportedJSON(parsed); t is Date.now()
validateImportedJSON(p, t) ==
    IF TypeOf(p) # "object" \/ p[1] = "null"
    THEN Rejected("Invalid file format. Expected a JSON object.")
    ELSE
      LET capsules == IF IsArray(p) THEN p ELSE Field(p, "capsules")
          metadata == IF IsArray(p) THEN Undefined ELSE Field(p, "metadata")
      IN  IF ~Truthy(capsules) \/ ~IsArray(capsules)
          THEN Rejected("This file doesn't appear to be a TimeCapsule export. Missing capsules data.")
          ELSE IF Len(capsules[2]) = 0
          THEN Rejected("This file contains no capsules to import.")
          ELSE
            LET results == [i \in DOMAIN capsules[2] |->
                               validateAndSanitizeCapsule(capsules[2][i], t)]
                passed == SelectSeq(results, LAMBDA r : r.valid)
                validCapsules == [i \in DOMAIN passed |-> passed[i].capsule]
                invalidCount == Len(results) - Len(passed)
                warnings == IF invalidCount > 0
                            THEN <<SkippedWarning(invalidCount)>> ELSE <<>>
                validMetadata ==
                    IF Truthy(metadata) /\ TypeOf(metadata) = "object"
                    THEN validateAndSanitizeMetadata(metadata) ELSE Undefined
            IN  IF Len(validCapsules) = 0
                THEN Rejected("All capsules in this file are invalid or corrupted.")
                ELSE [valid |-> TRUE, error |-> "",
                      data |-> Obj([capsules |-> Arr(validCapsules),
                                    metadata |-> validMetadata]),
                      warnings |-> IF Len(warnings) > 0
                                   THEN Arr(warnings) ELSE Undefined]

-----------------------------------------------------------------------------
(* JSON text.  A text is <<"json", tree>>, or NotJson for a string that   *)
(* JSON.parse rejects.  A tree is a pair like a value, except that an      *)
(* object is <<"jobject", members>> with members a sequence of             *)
(* <<key, tree>> in insertion order, and there is no undefined.            *)

NotJson == <<"garbage", <<"null", 0>> >>

CapsuleKeys == <<"id", "year", "title", "type", "createdAt", "updatedAt",
                 "description", "mediaUrl", "mediaType", "mood", "milestone",
                 "colorSeed", "tags", "age">>
ShareDataKeys == <<"capsules", "metadata">>
MetadataKeys == <<"name", "bio", "profilePic", "sharedAt">>

\* the keys of an object in insertion order
KeysOf(r) ==
    IF DOMAIN r = Range(CapsuleKeys) THEN CapsuleKeys
    ELSE IF DOMAIN r = Range(ShareDataKeys) THEN ShareDataKeys
    ELSE MetadataKeys

RECURSIVE JsonTree(_)
\* the serialization of JSON.stringify: a member whose value is undefined is
\* left out, undefined in an array and a non-finite number become null
JsonTree(x) ==
    CASE x[1] = "undefined" -> <<"null", 0>>
      [] x[1] = "number" -> IF x[2].inf # 0 THEN <<"null", 0>> ELSE x
      [] x[1] = "array" -> <<"array", [i \in DOMAIN x[2] |-> JsonTree(x[2][i])]>>
      [] x[1] = "object" ->
            LET keys == SelectSeq(KeysOf(x[2]), LAMBDA f : x[2][f] # Undefined)
            IN  <<"jobject", [i \in DOMAIN keys |->
                                 <<keys[i], JsonTree(x[2][keys[i]])>>]>>
      [] OTHER -> x

\* JSON.stringify(x)
JsonStringify(x) == <<"json", JsonTree(x)>>

\* the fields a parsed object is read with
FieldsFor(members) ==
    LET keys == {members[i][1] : i \in DOMAIN members}
    IN  IF keys \subseteq Range(ShareDataKeys) /\ keys # {}
        THEN Range(ShareDataKeys)
        ELSE IF keys \subseteq Range(CapsuleKeys) THEN Range(CapsuleKeys)
        ELSE Range(MetadataKeys)

RECURSIVE JsonValue(_)
\* the value JSON.parse builds from a tree
JsonValue(t) ==
    CASE t[1] = "array" -> <<"array", [i \in DOMAIN t[2] |-> JsonValue(t[2][i])]>>
      [] t[1] = "jobject" ->
            LET member(f) == CHOOSE i \in DOMAIN t[2] : t[2][i][1] = f
                has(f) == \E i \in DOMAIN t[2] : t[2][i][1] = f
            IN  <<"object", [f \in FieldsFor(t[2]) |->
                               IF has(f) THEN JsonValue(t[2][member(f)][2])
                               ELSE Undefined]>>
      [] OTHER -> t

\* whether JSON.parse(text) throws
JsonParseThrows(text) == text[1] # "json"

\* JSON.parse(text), for a text it accepts
JsonParse(text) == JsonValue(text[2])

-----------------------------------------------------------------------------
(* Query parameters.  A parameter is [kind, text, len, blanks]:            *)
(*   kind "absent": the URL has no such parameter;                         *)
(*   kind "empty":  the parameter is there with the value '';              *)
(*   kind "lz":     an LZString URI-component token that decompresses to   *)
(*                  `text`; `len` is its length, and `blanks` tells that   *)
(*                  its '+' characters have been read as ' ' (which is     *)
(*                  what URLSearchParams does to a query string);          *)
(*   kind "b64":    the URI-encoded base64 of `text` (legacy links);       *)
(*   kind "href":   the address of a remote file;                          *)
(*   kind "noise":  a value that is none of these.                         *)

Param(kind, text, len) == [kind |-> kind, text |-> text, len |-> len, blanks |-> FALSE]
Absent == Param("absent", NotJson, 0)
EmptyParam == Param("empty", NotJson, 0)
Noise == Param("noise", NotJson, 5)
Href == Param("href", NotJson, 20)

\* LZString.compressToEncodedURIComponent(text); len is the length of the
\* token the library produces for this text
compressToEncodedURIComponent(text, len) == Param("lz", text, len)

\* LZString.decompressFromEncodedURIComponent(param): the text, or NotJson
\* for null, '' and the strings it makes of a value that is no token.  It
\* first puts '+' back for every ' '.
decompressFromEncodedURIComponent(param) ==
    LET input == [param EXCEPT !.blanks = FALSE]
    IN  IF input.kind = "lz" THEN input.text ELSE NotJson

\* btoa(text) and encodeURIComponent of it, as old share links carry it
LegacyEncode(text, len) == Param("b64", text, len)

\* atob(decodeURIComponent(param)); throws on a value that is not base64
LegacyDecodeThrows(param) == param.kind # "b64"
LegacyDecode(param) == param.text

\* URLSearchParams.get(name) of a query string holding `param`: '+' reads
\* as ' '
SearchParamsGet(param) ==
    IF param.kind = "lz" THEN [param EXCEPT !.blanks = TRUE] ELSE param

\* params.has(name)
SearchParamsHas(param) == param.kind # "absent"

\* !dataParam and !importData: the value read is the empty string
IsEmptyString(param) == param.kind \in {"absent", "empty"}

-----------------------------------------------------------------------------
(* Capsule helpers (capsules.ts) *)

\* the number the subtraction makes of an operand: null is 0, a boolean 0
\* or 1; undefined, an object and a string that is no numeral are NaN,
\* written Undefined here
ToNumber(x) ==
    CASE x[1] = "number" -> x
      [] x[1] = "null" -> Num(0)
      [] x[1] = "boolean" -> Num(IF x[2] THEN 1 ELSE 0)
      [] OTHER -> Undefined

\* new Date().getFullYear() when Date.now() is t: the clock of the model
\* starts in 2020 and a tick is a year
getFullYear(t) == 2019 + t

\* getCapsuleType(year) at the time t; the modal computes the same as
\* formData.year > currentYear
getCapsuleType(year, t) == IF year > getFullYear(t) THEN "future" ELSE "past"

\* a.year - b.year of the sort comparator, as a sign; NaN (an operand that
\* is NaN, Infinity - Infinity) sorts as 0
CompareYear(a, b) ==
    LET ya == ToNumber(Field(a, "year"))
        yb == ToNumber(Field(b, "year"))
        key(y) == y[2].int * 10 + y[2].frac
    IN  IF ya[1] # "number" \/ yb[1] # "number" THEN 0
        ELSE IF ya[2].inf # yb[2].inf THEN ya[2].inf - yb[2].inf
        ELSE IF ya[2].inf # 0 THEN 0
        ELSE IF key(ya) < key(yb) THEN -1
        ELSE IF key(ya) > key(yb) THEN 1 ELSE 0

RECURSIVE StableSort(_)
\* the stable sort of Array.prototype.sort with that comparator
StableSort(q) ==
    IF q = <<>> THEN <<>>
    ELSE LET sorted == StableSort(SubSeq(q, 1, Len(q) - 1))
             c == q[Len(q)]
             n == Cardinality({i \in DOMAIN sorted : CompareYear(sorted[i], c) <= 0})
         IN  SubSeq(sorted, 1, n) \o <<c>> \o SubSeq(sorted, n + 1, Len(sorted))

\* whether sortCapsules(capsules) throws: the value is not iterable, or the
\* comparator reads .year of null
sortCapsulesThrows(capsules) ==
    \/ capsules[1] # "array"
    \/ Len(capsules[2]) >= 2 /\ \E i \in DOMAIN capsules[2] : capsules[2][i] = Null

\* a copy in the order given
sortCapsules_Unsorted(capsules) == capsules

\* sortCapsules(capsules): a sorted copy
sortCapsules(capsules) == Arr(StableSort(capsules[2]))

-----------------------------------------------------------------------------
(* Share / export codec (export.ts) *)

\* the longest URL generateShareableURL returns
MaxShareUrlLength == 1900

\* capsule.mediaUrl?.startsWith('data:')
isDataUrl(c) == c[2].mediaUrl[1] = "string" /\ StartsWithData(c[2].mediaUrl[2])

\* a callback that drops the embedded media but keeps its type
ShareableCapsule_KeepsMediaType(c) ==
    Obj([c[2] EXCEPT !.mediaUrl = IF isDataUrl(c) THEN Undefined ELSE @])

\* the object the map callback of the shareable mode returns
ShareableCapsule(c) ==
    Obj([c[2] EXCEPT !.mediaUrl = IF isDataUrl(c) THEN Undefined ELSE @,
                     !.mediaType = IF isDataUrl(c) THEN Undefined ELSE @])

\* capsules.map(capsule => ...) of the shareable mode
ShareableCapsules(capsules) ==
    [i \in DOMAIN capsules |-> ShareableCapsule(capsules[i])]

\* the JSON text exportAsJSON writes to the downloaded file
exportAsJSON(capsules, shareableMode, metadata) ==
    LET exportCapsules == IF shareableMode THEN ShareableCapsules(capsules)
                          ELSE capsules
    IN  JsonStringify(Obj([capsules |-> Arr(exportCapsules),
                           metadata |-> IF Truthy(metadata) THEN metadata
                                        ELSE Undefined]))

\* an address: the length of its base, and its query parameters
NoQuery == [data |-> Absent, url |-> Absent, meta |-> Absent, import |-> Absent]
Address(base, query) == [base |-> base, query |-> query]
EmptyAddress == Address(0, NoQuery)

\* url.length of `${baseUrl}?data=${compressed}`
ShareUrlLength(base, compressed) == base + 6 + compressed.len

\* a test that already refuses a URL of the longest length
ExceedsLimit_AtLimit(length) == length >= MaxShareUrlLength

\* shareUrl.length > 1900
ExceedsLimit(length) == length > MaxShareUrlLength

\* generateShareableURL(capsules, metadata); base is the length of the
\* configured base URL, len the length of the token LZString produces
generateShareableURL(capsules, metadata, base, len) ==
    LET shareData ==
            Obj([capsules |-> Arr(ShareableCapsules(capsules)),
                 metadata |-> IF Truthy(metadata)
                              THEN Obj([metadata[2] EXCEPT !.sharedAt = Word("date")])
                              ELSE Undefined])
        jsonString == JsonStringify(shareData)
        compressed == compressToEncodedURIComponent(jsonString, len)
    IN  IF ExceedsLimit(ShareUrlLength(base, compressed))
        THEN [url |-> EmptyAddress, needsExternalUrl |-> TRUE]
        ELSE [url |-> Address(base, [NoQuery EXCEPT !.data = compressed]),
              needsExternalUrl |-> FALSE]

\* what an import function hands back: a value ("ok"), null, or an error
\* thrown; `stripped` tells that it rewrote the visible URL on the way
Outcome(kind, value, stripped) == [kind |-> kind, value |-> value, stripped |-> stripped]

\* Array.isArray(parsed) ? { capsules: parsed } : parsed
AsShareDataValue(x) ==
    IF IsArray(x) THEN Obj([capsules |-> x, metadata |-> Undefined]) ELSE x

\* { ...shareData, capsules: sortCapsules(shareData.capsules) }; "throw"
\* when shareData is null or its capsules cannot be spread
SortedShareData(shareData, stripped, onThrow) ==
    IF Throws(shareData) THEN Outcome(onThrow, Null, stripped)
    ELSE LET capsules == Field(shareData, "capsules")
             metadata == Field(shareData, "metadata")
         IN  IF sortCapsulesThrows(capsules) THEN Outcome(onThrow, Null, stripped)
             ELSE Outcome("ok", Obj([capsules |-> sortCapsules(capsules),
                                     metadata |-> metadata]), stripped)

\* importFromURLParameterData(dataParam): every error is caught and
\* answered with null
importFromURLParameterData(dataParam) ==
    IF IsEmptyString(dataParam) THEN Outcome("null", Null, FALSE)
    ELSE LET jsonString == decompressFromEncodedURIComponent(dataParam)
         IN  IF JsonParseThrows(jsonString) THEN Outcome("null", Null, FALSE)
             ELSE SortedShareData(AsShareDataValue(JsonParse(jsonString)),
                                  TRUE, "null")

\* what fetch and response.text() give: the request failed, the status is
\* not OK, or a body
Response(kind, text) == [kind |-> kind, text |-> text]

\* importFromURLParameterUrl(urlParam) once the fetch has settled: every
\* error is answered by throwing 'Failed to load timeline from URL'
importFromURLParameterUrl(response) ==
    IF response.kind # "ok" \/ JsonParseThrows(response.text)
    THEN Outcome("throw", Null, FALSE)
    ELSE SortedShareData(AsShareDataValue(JsonParse(response.text)),
                         FALSE, "throw")

\* importFromURLParameterLegacy(importData)
importFromURLParameterLegacy(importData) ==
    IF IsEmptyString(importData) THEN Outcome("null", Null, FALSE)
    ELSE IF LegacyDecodeThrows(importData) THEN Outcome("null", Null, FALSE)
    ELSE IF JsonParseThrows(LegacyDecode(importData)) THEN Outcome("null", Null, FALSE)
    ELSE LET parsedJson == JsonParse(LegacyDecode(importData))
             capsules == IF IsArray(parsedJson) THEN parsedJson
                         ELSE Field(parsedJson, "capsules")
         IN  IF Throws(parsedJson) \/ sortCapsulesThrows(capsules)
             THEN Outcome("null", Null, TRUE)
             ELSE Outcome("ok", Obj([capsules |-> sortCapsules(capsules),
                                     metadata |-> Undefined]), TRUE)

\* importFromURL(url) once the fetch has settled
importFromURL(response) ==
    IF response.kind # "ok" \/ JsonParseThrows(response.text)
    THEN Outcome("throw", Null, FALSE)
    ELSE Outcome("ok", AsShareDataValue(JsonParse(response.text)), FALSE)

\* importJSONFile(file): the promise resolves with the parsed file, or
\* rejects when the file cannot be read or is not JSON
importJSONFile(file) ==
    IF file.kind # "ok" \/ JsonParseThrows(file.text)
    THEN Outcome("throw", Null, FALSE)
    ELSE Outcome("ok", AsShareDataValue(JsonParse(file.text)), FALSE)

-----------------------------------------------------------------------------
(* Storage (storage.ts).  The `timelines` object store is the set of its   *)
(* records; `id` is the key path, so no two records share an id.           *)

\* const VERSION
VERSION == 1

\* store.get(timelineId): the records under that key (none or one)
StoreGet(st, timelineId) == {r \in st : r.id = timelineId}

\* store.put(record)
StorePut(st, record) == (st \ StoreGet(st, record.id)) \cup {record}

\* a read whose failure is not answered with null
loadTimeline_IgnoresFailure(st, timelineId, readFails) ==
    {r \in st : r.id = timelineId}

\* storage.loadTimeline(timelineId): the record, or null when there is none
\* or the read fails
loadTimeline(st, timelineId, readFails) ==
    IF readFails THEN {} ELSE StoreGet(st, timelineId)

\* storage.loadCapsules(timelineId): timeline?.capsules || []
loadCapsules(st, timelineId, readFails) ==
    LET found == loadTimeline(st, timelineId, readFails)
    IN  IF found = {} THEN <<>> ELSE (CHOOSE r \in found : TRUE).capsules

\* a record whose capsuleCount is taken over from the record it replaces
SavedRecord_CountOfExisting(st, capsules, timelineId, timelineName, t, readFails) ==
    LET existing == loadTimeline(st, timelineId, readFails)
        old == CHOOSE r \in existing : TRUE
    IN  [id |-> timelineId,
         name |-> IF timelineName # "" THEN timelineName ELSE timelineId,
         capsules |-> capsules,
         version |-> 1,
         createdAt |-> IF existing # {} THEN old.createdAt ELSE t,
         updatedAt |-> t,
         capsuleCount |-> IF existing # {} THEN old.capsuleCount
                          ELSE Len(capsules)]

\* the record storage.saveCapsules puts; t is Date.now().  timelineName ||
\* timelineId: "" is the name not given
SavedRecord(st, capsules, timelineId, timelineName, t, readFails) ==
    LET existing == loadTimeline(st, timelineId, readFails)
        old == CHOOSE r \in existing : TRUE
    IN  [id |-> timelineId,
         name |-> IF timelineName # "" THEN timelineName ELSE timelineId,
         capsules |-> capsules,
         version |-> VERSION,
         createdAt |-> IF existing # {} /\ old.createdAt # 0
                       THEN old.createdAt ELSE t,
         updatedAt |-> t,
         capsuleCount |-> Len(capsules)]

\* the store after storage.saveCapsules(capsules, timelineId, timelineName)
\* when the write succeeds
saveCapsules(st, capsules, timelineId, timelineName, t, readFails) ==
    StorePut(st, SavedRecord(st, capsules, timelineId, timelineName, t, readFails))

\* store.delete(timelineId)
StoreDelete(st, timelineId) == st \ StoreGet(st, timelineId)

\* the store after storage.deleteTimeline(timelineId) when the write succeeds
deleteTimeline(st, timelineId) == StoreDelete(st, timelineId)

\* whether storage.renameTimeline throws 'Timeline not found' (which its
\* catch turns into 'Failed to rename timeline')
renameTimelineThrows(st, timelineId, readFails) ==
    loadTimeline(st, timelineId, readFails) = {}

\* a rename that leaves updatedAt as it was
renameTimeline_KeepsUpdatedAt(st, timelineId, newName, t, readFails) ==
    LET old == CHOOSE r \in st : r.id = timelineId
    IN  (st \ {old}) \cup {[old EXCEPT !.name = newName]}

\* the store after storage.renameTimeline(timelineId, newName) when it does
\* not throw; t is Date.now()
renameTimeline(st, timelineId, newName, t, readFails) ==
    LET found == loadTimeline(st, timelineId, readFails)
        old == CHOOSE r \in found : TRUE
    IN  StorePut(st, [old EXCEPT !.name = newName, !.updatedAt = t])

\* the position of a key in the order IndexedDB gives keys
KeyOrder(timelineId) ==
    CASE timelineId = "abc123" -> 1
      [] timelineId = "def456" -> 2
      [] OTHER -> 0

\* the TimelineMetadata getAllTimelines pushes for a record
TimelineMetadata(r) ==
    [id |-> r.id, name |-> r.name, createdAt |-> r.createdAt,
     updatedAt |-> r.updatedAt, capsuleCount |-> r.capsuleCount]

RECURSIVE CursorPrev(_)
\* index.openCursor(null, 'prev') on the updatedAt index: the records from
\* the greatest updatedAt down, records of one updatedAt from the greatest
\* key down
CursorPrev(records) ==
    IF records = {} THEN <<>>
    ELSE LET last == CHOOSE r \in records : \A q \in records :
                        \/ q.updatedAt < r.updatedAt
                        \/ q.updatedAt = r.updatedAt
                              /\ KeyOrder(q.id) <= KeyOrder(r.id)
         IN  <<last>> \o CursorPrev(records \ {last})

\* a listing that walks the index from the least updatedAt up
getAllTimelines_OldestFirst(st, openFails) ==
    LET cursor == CursorPrev(st)
    IN  [i \in DOMAIN cursor |-> TimelineMetadata(cursor[Len(cursor) + 1 - i])]

\* storage.getAllTimelines() when it resolves: [] when the database cannot
\* be opened
getAllTimelines(st, openFails) ==
    IF openFails THEN <<>>
    ELSE LET cursor == CursorPrev(st)
         IN  [i \in DOMAIN cursor |-> TimelineMetadata(cursor[i])]

-----------------------------------------------------------------------------
(* The editor (hooks/useTimeline.ts, Timeline.tsx, CapsuleModal.tsx).      *)
(* A capsule list of the hook is a sequence of capsule objects.            *)

\* capsules.map(c => c.year), the existingYears handed to the modal
ExistingYears(capsules) == {Field(capsules[i], "year") : i \in DOMAIN capsules}

\* !isEditing
IsEditing(m) == Truthy(m.editingCapsule)

\* handleSave of CapsuleModal ends with an alert: the year is 0 or outside
\* 1900..2200, the title is blank, or a capsule is added for a year that
\* has one
handleSaveAlerts(m, capsules) ==
    \/ ~Truthy(m.year)
    \/ m.year[2].inf # 0
    \/ m.year[2].int < 1900
    \/ m.year[2].int > 2200
    \/ (m.year[2].int = 2200 /\ m.year[2].frac > 0)
    \/ Trim(m.title[2]) = <<>>
    \/ (~IsEditing(m) /\ m.year \in ExistingYears(capsules))

\* the savedCapsule handleSave builds at the time t; `fresh` is the id made
\* of Date.now() and Math.random().  The fields of the form the user has
\* not touched are those of the capsule being edited, or the defaults of
\* an empty form; mood, tags and age are not among the fields written
SavedCapsule(m, t, fresh) ==
    LET capsule == m.editingCapsule
        trimmed(x) == IF x[1] = "string" THEN Str(Trim(x[2])) ELSE Undefined
        description == IF IsEditing(m) THEN Field(capsule, "description")
                       ELSE Str(<<>>)
        mediaUrl == IF IsEditing(m) THEN Field(capsule, "mediaUrl") ELSE Str(<<>>)
        milestone == IF IsEditing(m) THEN Field(capsule, "milestone")
                     ELSE Bool(FALSE)
        colorSeed == IF IsEditing(m) /\ Truthy(Field(capsule, "colorSeed"))
                     THEN Field(capsule, "colorSeed") ELSE NumFrac(0, 5)
    IN  Obj([EmptyCapsule EXCEPT
                !.id = IF Truthy(Field(capsule, "id")) THEN Field(capsule, "id")
                       ELSE fresh,
                !.year = m.year,
                !.title = Str(Trim(m.title[2])),
                !.description = trimmed(description),
                !.mediaUrl = trimmed(mediaUrl),
                !.mediaType = IF Truthy(mediaUrl) THEN Field(capsule, "mediaType")
                              ELSE Undefined,
                !.milestone = milestone,
                !.type = Word(getCapsuleType(m.year[2].int, t)),
                !.createdAt = IF Truthy(Field(capsule, "createdAt"))
                              THEN Field(capsule, "createdAt") ELSE Num(t),
                !.updatedAt = Num(t),
                !.colorSeed = colorSeed])

\* newCapsules of addCapsule
addCapsule(capsules, capsule) == StableSort(Append(capsules, capsule))

\* newCapsules of updateCapsule
updateCapsule(capsules, updatedCapsule) ==
    StableSort([i \in DOMAIN capsules |->
                   IF Field(capsules[i], "id") = Field(updatedCapsule, "id")
                   THEN updatedCapsule ELSE capsules[i]])

\* newCapsules of deleteCapsule
deleteCapsule(capsules, capsuleId) ==
    SelectSeq(capsules, LAMBDA c : Field(c, "id") # capsuleId)

\* a load effect that writes its result whether or not it was cleaned up
LoadWrites_Always(load) == TRUE

\* `if (mounted)` of loadData: the effect run has not been cleaned up
LoadWrites(load) == load.mounted

\* the cleanup of the load effect: mounted = false in every run so far
CleanedUp(running) == [i \in DOMAIN running |-> [running[i] EXCEPT !.mounted = FALSE]]

\* a sequence without its i-th element
Without(q, i) == SubSeq(q, 1, i - 1) \o SubSeq(q, i + 1, Len(q))

-----------------------------------------------------------------------------
(* Embedding (public/embed-script.js on the embedding page, EmbedViewer.tsx *)
(* inside the iframe).  An origin is the string event.origin carries.      *)

\* const url: the configured site origin
SiteOrigin == "https://timecapsule.srirams.me"

MIN_HEIGHT == 200
MAX_HEIGHT == 10000

\* whether new URL(origin) throws: the origin of a sandboxed or file
\* document is the string 'null'
UrlThrows(origin) == origin = "null"

\* new URL(origin).origin of a serialized origin
UrlOrigin(origin) == origin

\* a test that trusts every sender
isTrustedOrigin_AcceptsAll(origin) == TRUE

\* isTrustedOrigin(origin)
isTrustedOrigin(origin) ==
    IF UrlThrows(origin) \/ UrlThrows(SiteOrigin) THEN FALSE
    ELSE UrlOrigin(origin) = UrlOrigin(SiteOrigin)

\* the iframes of the embedding page that show the viewer
Frames == {"frame1", "frame2"}

\* an iframe and the state the script keeps for it: style.height in px,
\* lastHeight, updateScheduled, and the height the pending animation-frame
\* callback will apply (0: none pending)
FrameState(height, lastHeight, updateScheduled, pending) ==
    [height |-> height, lastHeight |-> lastHeight,
     updateScheduled |-> updateScheduled, pending |-> pending]

\* after initTimeCapsuleEmbeds: data-initial-height || '400px'
InitialFrame == FrameState(400, 0, FALSE, 0)

\* the parent script: its iframes, the theme messages it has posted, and
\* the theme of the embedding document
ParentScript(frames, sent, theme) == [frames |-> frames, sent |-> sent, theme |-> theme]

\* a message event: origin, source window, data
MessageEvent(origin, source, data) == [origin |-> origin, source |-> source, data |-> data]

\* event.data of a message: type and height (or theme), Undefined where the
\* message has none
MessageData(type, height, theme) == [type |-> type, height |-> height, theme |-> theme]

\* event.data || {}
NoData == MessageData("", Undefined, "")

\* Math.ceil(x)
MathCeil(x) ==
    IF x[2].inf # 0 \/ x[2].frac = 0 THEN x
    ELSE Num(x[2].int + 1)

\* Math.max(MIN_HEIGHT, Math.min(MAX_HEIGHT, Math.ceil(height)))
ClampHeight(height) ==
    LET ceiled == MathCeil(height)
    IN  IF ceiled[2].inf > 0 THEN MAX_HEIGHT
        ELSE IF ceiled[2].inf < 0 THEN MIN_HEIGHT
        ELSE IF ceiled[2].int > MAX_HEIGHT THEN MAX_HEIGHT
        ELSE IF ceiled[2].int < MIN_HEIGHT THEN MIN_HEIGHT
        ELSE ceiled[2].int

\* Math.abs(a - b)
AbsDiff(a, b) == IF a >= b THEN a - b ELSE b - a

\* the body of the resize branch for the iframe the message came from; a
\* NaN height stays NaN through Math.ceil, Math.min and Math.max, and
\* NaN > 10 is false
OnResize(state, height) ==
    LET newHeight == ClampHeight(height)
        cancelled == IF state.updateScheduled THEN [state EXCEPT !.pending = 0]
                     ELSE state
    IN  IF IsNaN(height) THEN cancelled
        ELSE IF AbsDiff(newHeight, state.lastHeight) > 10
        THEN [cancelled EXCEPT !.pending = newHeight, !.updateScheduled = TRUE]
        ELSE cancelled

\* the callback handed to requestAnimationFrame
OnAnimationFrame(state) ==
    IF state.pending = 0 THEN state
    ELSE FrameState(state.pending, state.pending, FALSE, 0)

\* sendThemeToIframe(iframeWindow): one message per allowed origin
sendThemeToIframe(script, iframeWindow) ==
    IF iframeWindow = "none" THEN script
    ELSE [script EXCEPT !.sent = Append(@, [to |-> iframeWindow,
                                           theme |-> script.theme,
                                           targetOrigin |-> SiteOrigin])]

\* the message listener of the parent script
OnMessage(script, event) ==
    IF ~isTrustedOrigin(event.origin) THEN script
    ELSE IF event.data.type = "timecapsule-resize"
            /\ TypeOf(event.data.height) = "number"
    THEN [script EXCEPT !.frames =
             [f \in Frames |-> IF f = event.source
                               THEN OnResize(@[f], event.data.height)
                               ELSE @[f]]]
    ELSE IF event.data.type = "timecapsule-request-theme"
    THEN sendThemeToIframe(script, event.source)
    ELSE script

\* the embedded viewer: the data-theme attribute of its document and the
\* origin of the last message its listener was called with
Viewer(dataTheme, sender) == [dataTheme |-> dataTheme, sender |-> sender]

\* handleThemeMessage(event) of EmbedViewer
handleThemeMessage(viewer, event) ==
    IF event.data.type = "timecapsule-theme"
    THEN Viewer(IF event.data.theme = "dark" THEN "dark" ELSE "light",
                event.origin)
    ELSE Viewer(viewer.dataTheme, event.origin)

\* the messages received so far
Received(count, foreign) == [count |-> count, foreign |-> foreign]

\* no embedding page
EmbedIdle ==
    /\ embed = ParentScript([f \in Frames |-> InitialFrame], <<>>, "light")
    /\ shadow = embed
    /\ received = Received(0, FALSE)
    /\ requested = [f \in Frames |-> Undefined]
    /\ child = Viewer("unset", "none")

-----------------------------------------------------------------------------
(* Inputs of the validation: entries of a parsed JSON file *)

X == <<"x", 1>>
Blank == <<" ", 1>>

\* a capsule with the required fields and both timestamps
BaseEntry(id, year, type) ==
    [EmptyCapsule EXCEPT !.id = Word(id), !.year = Num(year),
                         !.title = Str(<<X>>), !.type = Word(type),
                         !.createdAt = Num(1), !.updatedAt = Num(1)]

RawEntries ==
    { \* well formed, required fields only
      Obj(BaseEntry("a", 2020, "past")),
      \* every optional field set; blanks around strings, fractional numbers,
      \* a non-string tag, no createdAt
      Obj([BaseEntry("b", 1999, "future") EXCEPT
              !.year = NumFrac(1999, 5), !.title = Str(<<Blank, X, Blank>>),
              !.createdAt = Undefined,
              !.description = Str(<<Blank, X, Blank>>),
              !.mediaUrl = Str(<< <<"https:", 1>>, X >>),
              !.mediaType = Word("image"), !.mood = Word("joyful"),
              !.milestone = Bool(TRUE), !.colorSeed = NumFrac(0, 5),
              !.tags = Arr(<<Str(<<Blank, X>>), Num(5)>>),
              !.age = NumFrac(20, 5)]),
      \* no title
      Obj([BaseEntry("c", 2001, "past") EXCEPT !.title = Undefined]),
      \* a type that is neither 'past' nor 'future'
      Obj([BaseEntry("d", 2002, "past") EXCEPT !.type = Word("present")]),
      \* null in the list
      Null,
      \* year given as a string
      Obj([BaseEntry("e", 2003, "past") EXCEPT !.year = Word("2003")]),
      \* a description of blanks only, a media URL without a scheme
      Obj([BaseEntry("f", 2021, "future") EXCEPT
              !.description = Str(<<Blank>>), !.mediaUrl = Str(<<X>>)]),
      \* a title of 10001 characters with a blank as its 10000th, a
      \* description that is a number
      Obj([BaseEntry("g", 2004, "past") EXCEPT
              !.title = Str(<< <<"x", 9999>>, Blank, X >>),
              !.description = Num(5)]),
      \* an http URL after a blank, values outside the enumerations,
      \* tags that are not a list
      Obj([BaseEntry("h", 2005, "past") EXCEPT
              !.mediaUrl = Str(<< Blank, <<"http:", 1>>, X >>),
              !.mediaType = Word("audio"), !.mood = Word("bored"),
              !.tags = Word("x")]),
      \* an embedded image: a data: URI longer than 10000 characters
      Obj([BaseEntry("i", 2006, "past") EXCEPT
              !.mediaUrl = Str(<< <<"data:", 1>>, <<"x", 10000>> >>),
              !.mediaType = Word("image")]),
      \* an ftp URL; year 1e999, which JSON.parse reads as Infinity
      Obj([BaseEntry("j", 2007, "past") EXCEPT
              !.year = Infinity, !.mediaUrl = Str(<< <<"ftp:", 1>>, X >>)]) }

RECURSIVE SeqsUpTo(_, _)
\* the sequences over S of length at most n
SeqsUpTo(S, n) ==
    IF n = 0 THEN {<<>>}
    ELSE LET shorter == SeqsUpTo(S, n - 1)
         IN  shorter \cup {Append(q, e) : q \in {r \in shorter : Len(r) = n - 1},
                                           e \in S}

RawMetadata ==
    { Undefined,
      Word("x"),
      Obj([EmptyMetadata EXCEPT !.name = Str(<<Blank, X>>),
                                !.sharedAt = Word("date")]),
      Obj([EmptyMetadata EXCEPT !.profilePic = Str(<< <<"ftp:", 1>>, X >>),
                                !.sharedAt = Word("x")]) }

\* the values JSON.parse can hand to validateImportedJSON
ValidationInputs ==
    {Null, Num(3), Word("x"), Bool(TRUE)}
    \cup {Arr(l) : l \in SeqsUpTo(RawEntries, MaxEntries)}
    \cup {Obj([capsules |-> Arr(l), metadata |-> Undefined]) :
             l \in SeqsUpTo(RawEntries, MaxEntries)}
    \cup {Obj([capsules |-> c, metadata |-> Undefined]) :
             c \in {Undefined, Null, Num(3), Word("x"),
                    Obj(BaseEntry("a", 2020, "past"))}}
    \cup {Obj([capsules |-> Arr(<<e>>), metadata |-> m]) :
             e \in RawEntries, m \in RawMetadata}

-----------------------------------------------------------------------------
(* The validation as a state machine: a payload is validated, and the data *)
(* of an accepted payload is validated again.                              *)

\* the result before validateImportedJSON has run
NotRun == Rejected("not run")

\* the result before an import has run
NoOutcome == Outcome("none", Null, FALSE)

\* before generateShareableURL is called
NoShare == [called |-> FALSE, base |-> 0, len |-> 0, metadata |-> Undefined,
            result |-> [url |-> EmptyAddress, needsExternalUrl |-> FALSE]]

\* before exportAsJSON is called
NoExport == [done |-> FALSE, shareable |-> FALSE, text |-> NotJson]

\* before storage.saveCapsules / loadCapsules is called
NoCall == [called |-> FALSE, id |-> "", capsules |-> <<>>, afterSave |-> FALSE]

\* the viewer page: the length of the session history, the fetches the
\* import has made and how the last one ended, what ShareViewer shows, and
\* the branch and outcome of the import before the page was refreshed
Page(historyLength, fetches, fetched, shown, previous) ==
    [historyLength |-> historyLength, fetches |-> fetches, fetched |-> fetched,
     shown |-> shown, previous |-> previous]

\* no import before this one
NoPrevious == [path |-> "none", kind |-> "none"]

\* no page is open
NoPage == Page(0, 0, "none", "none", NoPrevious)

\* a page just opened: one history entry, ShareViewer is loading
NewPage == Page(1, 0, "none", "loading", NoPrevious)

\* nothing exported, no page opened
CodecIdle ==
    /\ timeline = <<>>
    /\ share = NoShare
    /\ exported = NoExport
    /\ opened = EmptyAddress
    /\ location = EmptyAddress
    /\ ipc = "idle"
    /\ path = "none"
    /\ consulted = <<>>
    /\ result = NoOutcome
    /\ page = NoPage

\* a call on storage: the operation, the timeline id it was given, whether
\* the database failed under it, whether it rejected, and what loadTimeline
\* (found) or getAllTimelines (listing) answered
StorageCall(op, timelineId, failed, rejected, found, listing) ==
    [op |-> op, id |-> timelineId, failed |-> failed, rejected |-> rejected,
     found |-> found, listing |-> listing]

\* before any call on storage
NoStorageCall == StorageCall("none", "", FALSE, FALSE, {}, <<>>)

\* a fresh database
StoreEmpty ==
    /\ store = {}
    /\ saved = NoCall
    /\ loaded = NoCall
    /\ call = NoStorageCall

\* the import flow of ImportMenuButton: pc is "idle", "reading" (the file
\* is being read), "saving" (saveCapsules is under way) or "done"; the file
\* picked, the answer to confirm(), the id and the data handed to
\* saveImportedTimeline, whether the save failed, and the store as it was
\* when the file was picked
ImportFlow(pc, file, confirmed, timelineId, data, failed, before) ==
    [pc |-> pc, file |-> file, confirmed |-> confirmed, timelineId |-> timelineId,
     data |-> data, failed |-> failed, before |-> before]

\* no file picked
NoImport == ImportFlow("idle", Response("failed", NotJson), FALSE, "", Null, FALSE, {})

\* the state of useTimeline: the timelineId it was called with, capsules,
\* loading, error, and whether its component is mounted
Hook(timelineId, capsules, loading, error, mounted) ==
    [timelineId |-> timelineId, capsules |-> capsules, loading |-> loading,
     error |-> error, mounted |-> mounted]

\* isModalOpen and editingCapsule of Timeline; year and title of the
\* formData of CapsuleModal
Modal(isOpen, editingCapsule, year, title) ==
    [isOpen |-> isOpen, editingCapsule |-> editingCapsule, year |-> year,
     title |-> title]

\* the modal before it was ever opened
ClosedModal == Modal(FALSE, Undefined, Num(0), Str(<<>>))

\* the last step of the editor: its name; for a load that resolved the
\* timeline id it was for, whether it was the load of the latest effect,
\* and what it returned; and the number of storage calls started so far
Op(name, id, latest, returned, started) ==
    [name |-> name, id |-> id, latest |-> latest, returned |-> returned,
     started |-> started]

\* no editor page is open
EditorIdle ==
    /\ hook = Hook("", <<>>, FALSE, Null, FALSE)
    /\ loads = <<>>
    /\ writes = <<>>
    /\ modal = ClosedModal
    /\ step = Op("none", "", FALSE, <<>>, 0)

\* the import button at rest, no editor
UiIdle ==
    /\ importing = FALSE
    /\ imp = NoImport
    /\ EditorIdle

\* no payload under validation
ValidationIdle ==
    /\ parsed = Null
    /\ vpc = "off"
    /\ vres = NotRun
    /\ vres2 = NotRun

InitValidation ==
    /\ UiIdle
    /\ parsed \in ValidationInputs
    /\ vpc = "input"
    /\ vres = NotRun
    /\ vres2 = NotRun
    /\ CodecIdle
    /\ StoreEmpty
    /\ EmbedIdle
    /\ now = 1

\* time passes
Tick ==
    /\ now < MaxClock
    /\ now' = now + 1
    /\ UNCHANGED <<uiVars, valVars, codecVars, storeVars, embedVars>>

\* validateImportedJSON(parsed)
Validate ==
    /\ vpc = "input"
    /\ vres' = validateImportedJSON(parsed, now)
    /\ vpc' = "validated"
    /\ UNCHANGED <<uiVars, parsed, vres2, now, codecVars, storeVars, embedVars>>

\* validateImportedJSON(validation.data) on the data of an accepted payload
Revalidate ==
    /\ vpc = "validated"
    /\ vres.valid
    /\ vres2' = validateImportedJSON(vres.data, now)
    /\ vpc' = "revalidated"
    /\ UNCHANGED <<uiVars, parsed, vres, now, codecVars, storeVars, embedVars>>

NextValidation == Tick \/ Validate \/ Revalidate

SpecValidation == InitValidation /\ [][NextValidation]_vars

-----------------------------------------------------------------------------
(* The share/export codec as a state machine.  A behaviour is one session: *)
(* a timeline is exported as a file or as a share link, or a viewer page   *)
(* is opened with a link and imports from its query parameters, or a file  *)
(* is imported through the import button.                                  *)

\* the capsules timelines are made of
SampleCapsules ==
    { Obj(BaseEntry("a", 2020, "past")),
      Obj([BaseEntry("b", 1999, "past") EXCEPT
              !.description = Str(<<X, Blank, X>>),
              !.mediaUrl = Str(<< <<"https:", 1>>, X >>),
              !.mediaType = Word("image"), !.mood = Word("joyful"),
              !.milestone = Bool(TRUE), !.colorSeed = NumFrac(0, 5),
              !.tags = Arr(<<Str(<<X>>)>>), !.age = Num(20)]),
      \* an uploaded image, embedded as a data: URI
      Obj([BaseEntry("c", 2021, "future") EXCEPT
              !.mediaUrl = Str(<< <<"data:", 1>>, <<"x", 10000>> >>),
              !.mediaType = Word("image")]),
      \* a second capsule of the year 2020
      Obj([BaseEntry("d", 2020, "past") EXCEPT
              !.mediaUrl = Str(<< <<"http:", 1>>, X >>),
              !.mediaType = Word("video")]) }

Timelines == SeqsUpTo(SampleCapsules, MaxCapsules)

\* the ShareMetadata handed to the export functions
SampleMetadata ==
    {Undefined, Obj([EmptyMetadata EXCEPT !.name = Str(<<X>>)])}

\* the lengths of the configured base URL (PUBLIC_VITE_SHARE_BASE_URL)
BaseUrlLengths == {30, 36}

\* the lengths of the token LZString produces, around the limit
TokenLengths ==
    {40, 3000} \cup {MaxShareUrlLength - 6 - b + d :
                        b \in BaseUrlLengths, d \in {-1, 0, 1}}

\* JSON texts a link or a file can carry for the timeline c: the ShareData
\* object, the bare array of old exports, an object without capsules, null,
\* and a text that is not JSON
TextsOf(c) ==
    { JsonStringify(Obj([capsules |-> Arr(c), metadata |-> Undefined])),
      JsonStringify(Arr(c)),
      JsonStringify(Obj([capsules |-> Undefined, metadata |-> Undefined])),
      JsonStringify(Null),
      NotJson }

\* the query strings a viewer page can be opened with
QueriesOf(c) ==
    LET datas == {Absent, EmptyParam, Noise}
                 \cup {compressToEncodedURIComponent(t, 40) : t \in TextsOf(c)}
        urls == {Absent, Href}
        metas == {Absent, Noise,
                  compressToEncodedURIComponent(
                      JsonStringify(Obj([EmptyMetadata EXCEPT !.name = Str(<<X>>)])), 40)}
        imports == {Absent, EmptyParam, Noise}
                   \cup {LegacyEncode(t, 40) : t \in TextsOf(c)}
    IN  {q \in [data : datas, url : urls, meta : metas, import : imports] :
            q.meta = Absent \/ q.url # Absent}

\* what a fetch of a remote file, or the reading of a picked file, gives
ResponsesOf(c) ==
    {Response("failed", NotJson), Response("not ok", NotJson)}
    \cup {Response("ok", t) : t \in TextsOf(c)}

\* the ids crypto.randomUUID() can give an imported timeline
TimelineIds == {"abc123", "def456"}

InitCodec ==
    /\ UiIdle
    /\ ValidationIdle
    /\ timeline \in Timelines
    /\ share = NoShare
    /\ exported = NoExport
    /\ opened = EmptyAddress
    /\ location = EmptyAddress
    /\ ipc = "idle"
    /\ path = "none"
    /\ consulted = <<>>
    /\ result = NoOutcome
    /\ page = NoPage
    /\ StoreEmpty
    /\ EmbedIdle
    /\ now = 1

\* nothing has happened in this session yet
FreshSession ==
    /\ ~share.called
    /\ ~exported.done
    /\ opened = EmptyAddress
    /\ ipc = "idle"
    /\ store = {}

\* generateShareableURL(capsules, metadata)
GenerateShareableURL ==
    /\ FreshSession
    /\ \E metadata \in SampleMetadata, base \in BaseUrlLengths, len \in TokenLengths :
          share' = [called |-> TRUE, base |-> base, len |-> len,
                    metadata |-> metadata,
                    result |-> generateShareableURL(timeline, metadata, base, len)]
    /\ UNCHANGED <<uiVars, valVars, timeline, exported, opened, location, ipc, path,
                   consulted, result, page, storeVars, embedVars, now>>

\* exportAsJSON(capsules, filename, shareableMode, metadata)
ExportAsJSON ==
    /\ FreshSession
    /\ \E shareableMode \in BOOLEAN, metadata \in SampleMetadata :
          exported' = [done |-> TRUE, shareable |-> shareableMode,
                       text |-> exportAsJSON(timeline, shareableMode, metadata)]
    /\ UNCHANGED <<uiVars, valVars, timeline, share, opened, location, ipc, path,
                   consulted, result, page, storeVars, embedVars, now>>

\* a visitor opens the link generateShareableURL returned
OpenShareLink ==
    /\ share.called
    /\ share.result.url # EmptyAddress
    /\ opened = EmptyAddress
    /\ opened' = share.result.url
    /\ location' = share.result.url
    /\ page' = NewPage
    /\ UNCHANGED <<uiVars, valVars, timeline, share, exported, ipc, path, consulted,
                   result, storeVars, embedVars, now>>

\* a visitor opens the viewer page with some other query string
OpenLink ==
    /\ FreshSession
    /\ \E q \in QueriesOf(timeline) :
          /\ opened' = Address(30, q)
          /\ location' = Address(30, q)
    /\ page' = NewPage
    /\ UNCHANGED <<uiVars, valVars, timeline, share, exported, ipc, path, consulted,
                   result, storeVars, embedVars, now>>

\* a chain of tests that asks for url before data
SelectImportPath_UrlFirst(query) ==
    IF SearchParamsHas(query.url) THEN "url"
    ELSE IF SearchParamsHas(query.data) THEN "data"
    ELSE IF SearchParamsHas(query.import) THEN "import"
    ELSE "none"

\* the branch importFromURLParameter takes: the first of data, url and
\* import that params.has finds
SelectImportPath(query) ==
    IF SearchParamsHas(query.data) THEN "data"
    ELSE IF SearchParamsHas(query.url) THEN "url"
    ELSE IF SearchParamsHas(query.import) THEN "import"
    ELSE "none"

\* the parameters importFromURLParameter has asked params.has about when
\* it enters a branch, in order
ParamsRead(query) ==
    CASE SelectImportPath(query) = "data" -> <<"data">>
      [] SelectImportPath(query) = "url" -> <<"data", "url">>
      [] OTHER -> <<"data", "url", "import">>

\* an address rewrite that deletes nothing
Stripped_KeepsQuery(address, name) == address

\* url.searchParams.delete(name): the address without the named parameter
Stripped(address, name) == [address EXCEPT !.query[name] = Absent]

\* history.pushState: one more entry
pushState(historyLength) == historyLength + 1

\* window.history.replaceState: the current entry is replaced, the history
\* keeps its length
replaceState(historyLength) == historyLength

\* what the load effect of ShareViewer shows for what the import settled
\* with: the timeline, or one of its two error texts
Shown(outcome) ==
    IF outcome.kind = "throw" THEN "Failed to load shared timeline"
    ELSE IF outcome.kind = "ok" /\ Truthy(outcome.value) THEN "timeline"
    ELSE "No shared timeline found in URL"

\* how a fetch and the parsing of its body ended
FetchEnd(response) ==
    IF response.kind # "ok" THEN response.kind
    ELSE IF JsonParseThrows(response.text) THEN "not json"
    ELSE "ok"

\* importFromURLParameter() up to its first await: the data and the legacy
\* branch run to their end, the url branch starts its fetch
ImportFromURLParameter ==
    /\ ipc = "idle"
    /\ opened # EmptyAddress
    /\ LET query == [f \in DOMAIN location.query |->
                        SearchParamsGet(location.query[f])]
           branch == SelectImportPath(query)
           outcome == IF branch = "data" THEN importFromURLParameterData(query.data)
                      ELSE IF branch = "import"
                      THEN importFromURLParameterLegacy(query.import)
                      ELSE Outcome("null", Null, FALSE)
       IN  /\ path' = branch
           /\ consulted' = ParamsRead(query)
           /\ ipc' = IF branch = "url" THEN "fetching" ELSE "done"
           /\ result' = IF branch = "url" THEN result ELSE outcome
           /\ location' = IF outcome.stripped
                          THEN Stripped(location, branch) ELSE location
           /\ page' = [page EXCEPT
                          !.historyLength = IF outcome.stripped
                                            THEN replaceState(@) ELSE @,
                          !.shown = IF branch = "url" THEN @ ELSE Shown(outcome)]
    /\ UNCHANGED <<uiVars, valVars, timeline, share, exported, opened, storeVars, embedVars, now>>

\* the rest of importFromURLParameter() once the fetch of the url branch
\* has settled
FetchResolve ==
    /\ ipc = "fetching"
    /\ \E response \in ResponsesOf(timeline) :
          LET shareData == importFromURLParameterUrl(response)
              meta == SearchParamsGet(location.query.meta)
              metaString == decompressFromEncodedURIComponent(meta)
              outcome ==
                 IF shareData.kind = "throw" THEN Outcome("null", Null, FALSE)
                 ELSE IF SearchParamsHas(meta) /\ ~JsonParseThrows(metaString)
                 THEN Outcome("ok", Obj([shareData.value[2] EXCEPT
                                            !.metadata = JsonParse(metaString)]),
                              FALSE)
                 ELSE shareData
          IN  /\ result' = outcome
              /\ page' = [page EXCEPT !.fetches = @ + 1,
                                      !.fetched = FetchEnd(response),
                                      !.shown = Shown(outcome)]
              /\ consulted' = IF shareData.kind = "throw" THEN consulted
                               ELSE Append(consulted, "meta")
    /\ ipc' = "done"
    /\ UNCHANGED <<uiVars, valVars, timeline, share, exported, opened, location, path,
                   storeVars, embedVars, now>>

\* the visitor refreshes a page whose import rewrote the address: the page
\* is loaded again with the address now shown
Refresh ==
    /\ ipc = "done"
    /\ opened # EmptyAddress
    /\ location # opened
    /\ page.previous = NoPrevious
    /\ opened' = location
    /\ ipc' = "idle"
    /\ path' = "none"
    /\ consulted' = <<>>
    /\ result' = NoOutcome
    /\ page' = Page(page.historyLength, 0, "none", "loading",
                    [path |-> path, kind |-> result.kind])
    /\ UNCHANGED <<uiVars, valVars, timeline, share, exported, location, storeVars, embedVars, now>>

\* importFromURL(url)
ImportFromURL ==
    /\ FreshSession
    /\ \E response \in ResponsesOf(timeline) : result' = importFromURL(response)
    /\ path' = "importFromURL"
    /\ ipc' = "done"
    /\ UNCHANGED <<uiVars, valVars, timeline, share, exported, opened, location,
                   consulted, page, storeVars, embedVars, now>>

\* the name saveImportedTimeline gives the new timeline
ImportedName(metadata) ==
    IF Truthy(Field(metadata, "name"))
    THEN "<name>'s Timeline (Imported <date>)"
    ELSE "Imported Timeline (Imported <date>)"

\* handleImportJSON of the import button: read the picked file, validate,
\* ask the user, save under a new id
HandleImportJSON ==
    /\ ~share.called
    /\ opened = EmptyAddress
    /\ ipc = "idle"
    /\ store = {}
    /\ \E file \in ResponsesOf(timeline) \cup {Response("ok", exported.text)},
          confirmed \in BOOLEAN, timelineId \in TimelineIds,
          readFails \in BOOLEAN, writeFails \in BOOLEAN :
          LET imported == importJSONFile(file)
              validation == IF imported.kind = "ok"
                            THEN validateImportedJSON(imported.value, now)
                            ELSE NotRun
              saving == imported.kind = "ok" /\ validation.valid /\ confirmed
          IN  /\ store' = IF saving /\ ~writeFails
                          THEN saveCapsules(store, validation.data[2].capsules[2],
                                            timelineId,
                                            ImportedName(validation.data[2].metadata),
                                            now, readFails)
                          ELSE store
              /\ result' = IF saving /\ ~writeFails
                           THEN Outcome("ok", validation.data, FALSE)
                           ELSE Outcome("null", Null, FALSE)
    /\ path' = "file"
    /\ ipc' = "done"
    /\ UNCHANGED <<uiVars, valVars, timeline, share, exported, opened, location,
                   consulted, page, saved, loaded, call, embedVars, now>>

NextCodec ==
    \/ GenerateShareableURL
    \/ ExportAsJSON
    \/ OpenShareLink
    \/ OpenLink
    \/ ImportFromURLParameter
    \/ FetchResolve
    \/ Refresh
    \/ ImportFromURL
    \/ HandleImportJSON

SpecCodec == InitCodec /\ [][NextCodec]_vars

-----------------------------------------------------------------------------
(* Storage as a state machine: timelines are saved and loaded. *)

\* the capsule lists callers hand to storage.saveCapsules: none, one capsule,
\* the years 2020, 1999, 2021 in that order, and the years 1999, 2020
StoredLists ==
    LET capsule(id, year) == Obj(BaseEntry(id, year, "past"))
    IN  { <<>>,
          <<capsule("a", 2020)>>,
          <<capsule("a", 2020), capsule("b", 1999), capsule("c", 2021)>>,
          <<capsule("b", 1999), capsule("a", 2020)>> }

\* the timeline names callers give; "" is no name
TimelineNames == {"", "My Timeline"}

InitStorage ==
    /\ UiIdle
    /\ ValidationIdle
    /\ CodecIdle
    /\ StoreEmpty
    /\ EmbedIdle
    /\ now = 1

\* the names a timeline is renamed to
NewNames == {"My Timeline"}

\* storage.saveCapsules(capsules, timelineId, timelineName); a write that
\* fails throws and leaves the store as it was
SaveCapsules ==
    /\ \E timelineId \in TimelineIds :
          \/ /\ UNCHANGED <<store, saved>>
             /\ call' = StorageCall("saveCapsules", timelineId, TRUE, TRUE,
                                    {}, <<>>)
          \/ \E capsules \in StoredLists, timelineName \in TimelineNames,
                readFails \in BOOLEAN :
                /\ store' = saveCapsules(store, capsules, timelineId,
                                         timelineName, now, readFails)
                /\ saved' = [called |-> TRUE, id |-> timelineId,
                             capsules |-> capsules, afterSave |-> FALSE]
                /\ call' = StorageCall("saveCapsules", timelineId, readFails,
                                       FALSE, {}, <<>>)
    /\ loaded' = NoCall
    /\ UNCHANGED <<uiVars, valVars, codecVars, embedVars, now>>

\* storage.loadCapsules(timelineId); afterSave tells that the call follows
\* a save of the same timeline and read it
LoadCapsules ==
    /\ \E timelineId \in TimelineIds, readFails \in BOOLEAN :
          /\ loaded' = [called |-> TRUE, id |-> timelineId,
                        capsules |-> loadCapsules(store, timelineId, readFails),
                        afterSave |-> saved.called /\ saved.id = timelineId
                                      /\ ~readFails]
          /\ call' = StorageCall("loadCapsules", timelineId, readFails, FALSE,
                                 {}, <<>>)
    /\ UNCHANGED <<uiVars, valVars, codecVars, store, saved, embedVars, now>>

\* storage.loadTimeline(timelineId)
LoadTimeline ==
    /\ \E timelineId \in TimelineIds, readFails \in BOOLEAN :
          call' = StorageCall("loadTimeline", timelineId, readFails, FALSE,
                              loadTimeline(store, timelineId, readFails), <<>>)
    /\ loaded' = NoCall
    /\ UNCHANGED <<uiVars, valVars, codecVars, store, saved, embedVars, now>>

\* storage.renameTimeline(timelineId, newName)
RenameTimeline ==
    /\ \E timelineId \in TimelineIds, newName \in NewNames,
          readFails \in BOOLEAN, writeFails \in BOOLEAN :
          LET throws == renameTimelineThrows(store, timelineId, readFails)
                           \/ writeFails
          IN  /\ store' = IF throws THEN store
                          ELSE renameTimeline(store, timelineId, newName, now,
                                              readFails)
              /\ call' = StorageCall("renameTimeline", timelineId,
                                     readFails \/ writeFails, throws, {}, <<>>)
    /\ loaded' = NoCall
    /\ UNCHANGED <<uiVars, valVars, codecVars, saved, embedVars, now>>

\* storage.deleteTimeline(timelineId)
DeleteTimeline ==
    /\ \E timelineId \in TimelineIds, writeFails \in BOOLEAN :
          /\ store' = IF writeFails THEN store
                      ELSE deleteTimeline(store, timelineId)
          /\ saved' = IF ~writeFails /\ saved.id = timelineId THEN NoCall
                      ELSE saved
          /\ call' = StorageCall("deleteTimeline", timelineId, writeFails,
                                 writeFails, {}, <<>>)
    /\ loaded' = NoCall
    /\ UNCHANGED <<uiVars, valVars, codecVars, embedVars, now>>

\* storage.getAllTimelines(): it answers [] when the database cannot be
\* opened and rejects when the cursor fails
GetAllTimelines ==
    /\ \E openFails \in BOOLEAN, cursorFails \in BOOLEAN :
          call' = StorageCall("getAllTimelines", "", openFails \/ cursorFails,
                              ~openFails /\ cursorFails, {},
                              IF cursorFails THEN <<>>
                              ELSE getAllTimelines(store, openFails))
    /\ loaded' = NoCall
    /\ UNCHANGED <<uiVars, valVars, codecVars, store, saved, embedVars, now>>

NextStorage ==
    \/ Tick
    \/ SaveCapsules
    \/ LoadCapsules
    \/ LoadTimeline
    \/ RenameTimeline
    \/ DeleteTimeline
    \/ GetAllTimelines

SpecStorage == InitStorage /\ [][NextStorage]_vars

-----------------------------------------------------------------------------
(* Embedding as a state machine: messages arrive at the embedding page and *)
(* at the viewer inside the iframe, animation frames run.  `shadow` is the *)
(* parent script fed the same events without the messages whose origin is  *)
(* not the site origin.                                                    *)

\* the origins a message can come from
Origins ==
    {SiteOrigin, "https://timecapsule.srirams.me.evil.example",
     "https://blog.example", "null"}

\* the windows a message can come from: the iframes, another window
Windows == Frames \cup {"elsewhere"}

\* what a message to the embedding page can carry
ParentPayloads ==
    {NoData, MessageData("timecapsule-request-theme", Undefined, ""),
     MessageData("timecapsule-theme", Undefined, "dark")}
    \cup {MessageData("timecapsule-resize", h, "") :
             h \in {Num(100), NumFrac(499, 5), Num(505), Num(20000), NaN,
                    Word("500")}}

\* what a message to the embedded viewer can carry
ViewerPayloads ==
    {NoData, MessageData("timecapsule-resize", Num(505), ""),
     MessageData("timecapsule-theme", Undefined, "dark"),
     MessageData("timecapsule-theme", Undefined, "light"),
     MessageData("timecapsule-theme", Undefined, "")}

InitEmbed ==
    /\ UiIdle
    /\ ValidationIdle
    /\ CodecIdle
    /\ StoreEmpty
    /\ \E theme \in {"light", "dark"} :
          embed = ParentScript([f \in Frames |-> InitialFrame], <<>>, theme)
    /\ shadow = embed
    /\ received = Received(0, FALSE)
    /\ requested = [f \in Frames |-> Undefined]
    /\ child = Viewer("unset", "none")
    /\ now = 1

\* a message event on the window of the embedding page
ParentMessage ==
    /\ received.count < MaxMessages
    /\ \E origin \in Origins, source \in Windows, data \in ParentPayloads :
          LET event == MessageEvent(origin, source, data)
          IN  /\ embed' = OnMessage(embed, event)
              /\ shadow' = IF origin = SiteOrigin THEN OnMessage(shadow, event)
                           ELSE shadow
              /\ received' = Received(received.count + 1,
                                      received.foreign \/ origin # SiteOrigin)
              /\ requested' =
                    IF /\ origin = SiteOrigin
                       /\ source \in Frames
                       /\ data.type = "timecapsule-resize"
                       /\ TypeOf(data.height) = "number"
                       /\ ~IsNaN(data.height)
                    THEN [requested EXCEPT ![source] = data.height]
                    ELSE requested
    /\ UNCHANGED <<uiVars, valVars, codecVars, storeVars, child, now>>

\* the browser runs the animation-frame callback pending for an iframe
AnimationFrame ==
    /\ \E f \in Frames :
          /\ embed.frames[f].pending # 0 \/ shadow.frames[f].pending # 0
          /\ embed' = [embed EXCEPT !.frames[f] = OnAnimationFrame(@)]
          /\ shadow' = [shadow EXCEPT !.frames[f] = OnAnimationFrame(@)]
    /\ UNCHANGED <<uiVars, valVars, codecVars, storeVars, received, requested, child, now>>

\* a message event on the window of the embedded viewer
ViewerMessage ==
    /\ \E origin \in Origins, data \in ViewerPayloads :
          child' = handleThemeMessage(child, MessageEvent(origin, "parent", data))
    /\ UNCHANGED <<uiVars, valVars, codecVars, storeVars, embed, shadow, received, requested, now>>

NextEmbed == ParentMessage \/ AnimationFrame \/ ViewerMessage

SpecEmbed == InitEmbed /\ [][NextEmbed]_vars

-----------------------------------------------------------------------------
(* The JSON-file import of ImportMenuButton as a state machine: a file is   *)
(* picked, read and validated, the user is asked, the timeline is saved.   *)

\* the files the user can pick: unreadable, not JSON, and the JSON texts of
\* null, an empty list, a clean list, a list with an entry that is skipped,
\* a list of invalid entries only, a ShareData object with metadata, and
\* an object without capsules
ImportFiles ==
    LET clean == Obj(BaseEntry("a", 2020, "past"))
        full == Obj([BaseEntry("b", 1999, "future") EXCEPT
                        !.mood = Word("joyful"),
                        !.tags = Arr(<<Str(<<X>>)>>), !.age = Num(20)])
        untitled == Obj([BaseEntry("c", 2001, "past") EXCEPT !.title = Undefined])
        named == Obj([EmptyMetadata EXCEPT !.name = Str(<<X>>)])
    IN  {Response("failed", NotJson), Response("ok", NotJson)}
        \cup {Response("ok", JsonStringify(v)) :
                 v \in {Null, Arr(<<>>), Arr(<<clean>>),
                        Arr(<<full, untitled, clean>>), Arr(<<untitled>>),
                        Obj([capsules |-> Arr(<<full, clean>>), metadata |-> named]),
                        Obj([capsules |-> Undefined, metadata |-> Undefined])}}

\* a confirm() dialog that is never shown
ImportProceeds_WithoutConfirm(imported, validation, confirmed) ==
    /\ imported.kind = "ok"
    /\ validation.valid
    /\ Truthy(validation.data)

\* handleImportJSON reaches saveImportedTimeline: the file was read, the
\* validation passed with data, and the user confirmed
ImportProceeds(imported, validation, confirmed) ==
    /\ imported.kind = "ok"
    /\ validation.valid
    /\ Truthy(validation.data)
    /\ confirmed

\* the ids of the stored timelines
StoredIds(st) == {r.id : r \in st}

\* a timeline the user created before
ExistingTimeline ==
    saveCapsules({}, <<Obj(BaseEntry("a", 2020, "past"))>>, "abc123",
                 "My Timeline", 1, FALSE)

InitImport ==
    /\ ValidationIdle
    /\ CodecIdle
    /\ store \in {{}, ExistingTimeline}
    /\ saved = NoCall
    /\ loaded = NoCall
    /\ call = NoStorageCall
    /\ EmbedIdle
    /\ UiIdle
    /\ now = 1

\* the user picks a file: the callback of triggerFileInput sets the flag
\* and starts reading
PickImportFile ==
    /\ ~importing
    /\ TimelineIds \ StoredIds(store) # {}
    /\ \E file \in ImportFiles :
          imp' = ImportFlow("reading", file, FALSE, "", Null, FALSE, store)
    /\ importing' = TRUE
    /\ UNCHANGED <<editorVars, valVars, codecVars, storeVars, embedVars, now>>

\* the file reader has settled: handleImportJSON validates, asks the user
\* and either ends or starts saving under an id of crypto.randomUUID(),
\* taken to be one no stored timeline has
ImportFileRead ==
    /\ imp.pc = "reading"
    /\ \E confirmed \in BOOLEAN, timelineId \in TimelineIds \ StoredIds(store) :
          LET imported == importJSONFile(imp.file)
              validation == IF imported.kind = "ok"
                            THEN validateImportedJSON(imported.value, now)
                            ELSE NotRun
          IN  IF ImportProceeds(imported, validation, confirmed)
              THEN /\ imp' = [imp EXCEPT !.pc = "saving", !.confirmed = confirmed,
                                         !.timelineId = timelineId,
                                         !.data = validation.data]
                   /\ importing' = importing
              ELSE /\ imp' = [imp EXCEPT !.pc = "done", !.confirmed = confirmed]
                   /\ importing' = FALSE
    /\ UNCHANGED <<editorVars, valVars, codecVars, storeVars, embedVars, now>>

\* storage.saveCapsules of saveImportedTimeline has settled, and with it
\* handleImportJSON
ImportSaved ==
    /\ imp.pc = "saving"
    /\ \E readFails \in BOOLEAN, writeFails \in BOOLEAN :
          /\ store' = IF writeFails THEN store
                      ELSE saveCapsules(store, imp.data[2].capsules[2],
                                        imp.timelineId,
                                        ImportedName(imp.data[2].metadata),
                                        now, readFails)
          /\ imp' = [imp EXCEPT !.pc = "done", !.failed = writeFails]
    /\ importing' = FALSE
    /\ UNCHANGED <<editorVars, valVars, codecVars, saved, loaded, call, embedVars, now>>

\* time passes while the import button is shown
ImportTick ==
    /\ now < MaxClock
    /\ now' = now + 1
    /\ UNCHANGED <<valVars, codecVars, storeVars, embedVars, uiVars>>

NextImport == PickImportFile \/ ImportFileRead \/ ImportSaved \/ ImportTick

SpecImport == InitImport /\ [][NextImport]_vars

-----------------------------------------------------------------------------
(* The timeline editor as a state machine: the hook loads the timeline,    *)
(* the user opens the modal, fills the form, saves and deletes; the saves  *)
(* settle later.  The timeline was created empty or imported from a file.  *)

\* the id of the k-th capsule the modal creates
FreshId(k) == Str(<< <<"n", k>> >>)

\* the capsule lists validateImportedJSON lets through for a list of entries
Validated(entries) == validateImportedJSON(Arr(entries), 1).data[2].capsules[2]

\* the timelines the editor is opened on: a new one; an imported one with
\* mood, tags and age; an imported one two of whose capsules have the same
\* id; an imported one whose capsule has a blank id and createdAt 0
EditorTimelines ==
    LET clean == Obj(BaseEntry("a", 2020, "past"))
        full == Obj([BaseEntry("b", 1999, "past") EXCEPT
                        !.mood = Word("joyful"),
                        !.tags = Arr(<<Str(<<X>>)>>), !.age = Num(20)])
        twin == Obj(BaseEntry("a", 2021, "future"))
        odd == Obj([BaseEntry("a", 2001, "past") EXCEPT
                       !.id = Str(<<Blank>>), !.createdAt = Num(0)])
    IN  {<<>>, Validated(<<full, clean>>), Validated(<<clean, twin>>),
         Validated(<<odd>>)}

\* what the user types into the year field, and into the title field
TypedYears == {Num(1999), Num(2021), Num(2300)}
TypedTitles == {Str(<<X>>), Str(<<Blank>>)}

InitEditor ==
    /\ ValidationIdle
    /\ CodecIdle
    /\ EmbedIdle
    /\ importing = FALSE
    /\ imp = NoImport
    /\ \E capsules \in EditorTimelines :
          store = saveCapsules({}, capsules, "abc123", "My Timeline", 1, FALSE)
    /\ saved = NoCall
    /\ loaded = NoCall
    /\ call = NoStorageCall
    /\ hook = Hook("abc123", <<>>, TRUE, Null, TRUE)
    /\ loads = << [id |-> "abc123", mounted |-> TRUE, done |-> FALSE] >>
    /\ writes = <<>>
    /\ modal = ClosedModal
    /\ step = Op("mount", "", FALSE, <<>>, 1)
    /\ now = 1

\* storage.loadCapsules of a load effect resolves (it never rejects): the
\* rest of loadData
LoadResolve ==
    /\ \E i \in DOMAIN loads, readFails \in BOOLEAN :
          LET load == loads[i]
              loadedCapsules == loadCapsules(store, load.id, readFails)
          IN  /\ ~load.done
              /\ hook' = IF LoadWrites(load)
                         THEN [hook EXCEPT !.capsules = loadedCapsules,
                                           !.loading = FALSE]
                         ELSE hook
              /\ loads' = [loads EXCEPT ![i].done = TRUE]
              /\ step' = Op("loadResolve", load.id, i = Len(loads),
                            loadedCapsules, step.started)
    /\ UNCHANGED <<valVars, codecVars, storeVars, embedVars, importVars, writes,
                   modal, now>>

\* handleOpenModal(capsule) for a capsule shown, or handleOpenModal() of the
\* add button, and the effect of the modal that fills the form
OpenModal ==
    /\ hook.mounted
    /\ ~hook.loading
    /\ ~modal.isOpen
    /\ \/ modal' = Modal(TRUE, Undefined, Num(getFullYear(now)), Str(<<>>))
       \/ \E i \in DOMAIN hook.capsules :
             modal' = Modal(TRUE, hook.capsules[i], Field(hook.capsules[i], "year"),
                            Field(hook.capsules[i], "title"))
    /\ step' = Op("openModal", "", FALSE, <<>>, step.started)
    /\ UNCHANGED <<valVars, codecVars, storeVars, embedVars, importVars, hook,
                   loads, writes, now>>

\* handleCloseModal of the Cancel button.  The form keeps its values while
\* the modal is closed and the next opening overwrites them; the closed
\* modal is written with the form cleared
CloseModal ==
    /\ modal.isOpen
    /\ modal' = ClosedModal
    /\ step' = Op("closeModal", "", FALSE, <<>>, step.started)
    /\ UNCHANGED <<valVars, codecVars, storeVars, embedVars, importVars, hook,
                   loads, writes, now>>

\* onChange of the year input, which is disabled while a capsule is edited
SetYear ==
    /\ modal.isOpen
    /\ ~IsEditing(modal)
    /\ \E year \in TypedYears : modal' = [modal EXCEPT !.year = year]
    /\ step' = Op("setYear", "", FALSE, <<>>, step.started)
    /\ UNCHANGED <<valVars, codecVars, storeVars, embedVars, importVars, hook,
                   loads, writes, now>>

\* onChange of the title input
SetTitle ==
    /\ modal.isOpen
    /\ \E title \in TypedTitles : modal' = [modal EXCEPT !.title = title]
    /\ step' = Op("setTitle", "", FALSE, <<>>, step.started)
    /\ UNCHANGED <<valVars, codecVars, storeVars, embedVars, importVars, hook,
                   loads, writes, now>>

\* the Save button: handleSave of the modal, handleSave of Timeline, and
\* addCapsule or updateCapsule up to the await of storage.saveCapsules
ModalSave ==
    /\ modal.isOpen
    /\ hook.mounted
    /\ ~hook.loading
    /\ IF handleSaveAlerts(modal, hook.capsules)
       THEN /\ step' = Op("alert", "", FALSE, <<>>, step.started)
            /\ UNCHANGED <<hook, writes>>
       ELSE LET savedCapsule == SavedCapsule(modal, now, FreshId(step.started))
                newCapsules == IF IsEditing(modal)
                               THEN updateCapsule(hook.capsules, savedCapsule)
                               ELSE addCapsule(hook.capsules, savedCapsule)
            IN  /\ step.started < MaxCalls
                /\ hook' = [hook EXCEPT !.capsules = newCapsules]
                /\ writes' = Append(writes, [timelineId |-> hook.timelineId,
                                             capsules |-> newCapsules])
                /\ step' = Op(IF IsEditing(modal) THEN "updateCapsule"
                              ELSE "addCapsule", "", FALSE, <<>>,
                              step.started + 1)
    /\ UNCHANGED <<valVars, codecVars, storeVars, embedVars, importVars, loads,
                   modal, now>>

\* the Delete button, confirmed: handleDelete of Timeline and deleteCapsule
\* up to the await of storage.saveCapsules
ModalDelete ==
    /\ modal.isOpen
    /\ IsEditing(modal)
    /\ hook.mounted
    /\ ~hook.loading
    /\ step.started < MaxCalls
    /\ LET newCapsules == deleteCapsule(hook.capsules,
                                        Field(modal.editingCapsule, "id"))
       IN  /\ hook' = [hook EXCEPT !.capsules = newCapsules]
           /\ writes' = Append(writes, [timelineId |-> hook.timelineId,
                                        capsules |-> newCapsules])
    /\ step' = Op("deleteCapsule", "", FALSE, <<>>, step.started + 1)
    /\ UNCHANGED <<valVars, codecVars, storeVars, embedVars, importVars, loads,
                   modal, now>>

\* a storage.saveCapsules call of persistCapsules settles: written, and
\* Timeline closes the modal; or rejected, and Timeline alerts
PersistSettle ==
    /\ \E i \in DOMAIN writes, writeFails \in BOOLEAN, readFails \in BOOLEAN :
          /\ store' = IF writeFails THEN store
                      ELSE saveCapsules(store, writes[i].capsules,
                                        writes[i].timelineId, "My Timeline",
                                        now, readFails)
          /\ writes' = Without(writes, i)
          /\ modal' = IF writeFails THEN modal ELSE ClosedModal
          /\ step' = Op(IF writeFails THEN "persistFailed" ELSE "persisted",
                        "", FALSE, <<>>, step.started)
    /\ UNCHANGED <<valVars, codecVars, saved, loaded, call, embedVars,
                   importVars, hook, loads, now>>

\* time passes in the editor
EditorTick ==
    /\ now < MaxClock
    /\ now' = now + 1
    /\ step' = Op("tick", "", FALSE, <<>>, step.started)
    /\ UNCHANGED <<valVars, codecVars, storeVars, embedVars, importVars, hook,
                   loads, writes, modal>>

NextEditor ==
    \/ LoadResolve
    \/ OpenModal
    \/ CloseModal
    \/ SetYear
    \/ SetTitle
    \/ ModalSave
    \/ ModalDelete
    \/ PersistSettle
    \/ EditorTick

SpecEditor == InitEditor /\ [][NextEditor]_vars

-----------------------------------------------------------------------------
(* Properties of the validation *)

\* the required-field check as the specification words it: id a string,
\* year a number, title a string, type exactly 'past' or 'future'
PassesRequiredCheck(e) ==
    /\ e[1] = "object"
    /\ e[2].id[1] = "string"
    /\ e[2].year[1] = "number"
    /\ e[2].title[1] = "string"
    /\ e[2].type[1] = "string"
    /\ e[2].type[2] \in {<< <<"past", 1>> >>, << <<"future", 1>> >>}

\* the payload with a bare top-level array read as {capsules: array}
AsShareData(p) ==
    IF p[1] = "array" THEN Obj([capsules |-> p, metadata |-> Undefined]) ELSE p

\* the `capsules` list of the payload, <<>> when it has none
EntriesOf(p) ==
    LET q == AsShareData(p)
    IN  IF q[1] = "object" /\ q[2].capsules[1] = "array"
        THEN q[2].capsules[2] ELSE <<>>

\* the four cases in which the specification has the payload rejected
MustReject(p) ==
    LET q == AsShareData(p)
    IN  \/ q[1] # "object"
        \/ q[2].capsules[1] # "array"
        \/ Len(q[2].capsules[2]) = 0
        \/ \A i \in DOMAIN q[2].capsules[2] : ~PassesRequiredCheck(q[2].capsules[2][i])

\* C6: validateImportedJSON answers valid=false, with an error message and
\* no data, exactly when the top-level value is not an object, `capsules`
\* is missing or not a list, the list is empty, or no entry passes the
\* required-field check; otherwise it answers valid=true with at least one
\* capsule.  A bare top-level array is read as {capsules: array}.
C6_RejectedExactlyWhen ==
    vpc # "input" =>
        /\ vres.valid = ~MustReject(parsed)
        /\ ~vres.valid => vres.error # "" /\ vres.data = Undefined
        /\ vres.valid => /\ vres.error = ""
                         /\ vres.data[1] = "object"
                         /\ Len(vres.data[2].capsules[2]) >= 1
        /\ parsed[1] = "array" =>
               \E t \in 1..now : vres = validateImportedJSON(AsShareData(parsed), t)

\* C6 witness: a payload was rejected because none of its several entries
\* passes the required-field check
C6_Witness ==
    /\ vpc = "validated"
    /\ ~vres.valid
    /\ Len(EntriesOf(parsed)) >= 2
    /\ parsed[1] = "array"

\* the entries of the payload that pass the required-field check, in order
PassingEntries(p) == SelectSeq(EntriesOf(p), PassesRequiredCheck)

\* out is the sanitized form of the entry e: same type, the year floored,
\* the id trimmed
SameEntry(out, e) ==
    /\ out[2].type = e[2].type
    /\ out[2].year[2] = [int |-> e[2].year[2].int, frac |-> 0, inf |-> e[2].year[2].inf]
    /\ out[2].id[2] = Slice(Trim(e[2].id[2]), MaxStringLength)
    /\ out[2].milestone = (IF e[2].milestone[1] = "boolean"
                          THEN e[2].milestone ELSE Undefined)

\* C7: of n entries of which k fail the required-field check, 0 < k < n,
\* the n-k passing entries are returned in their original order with
\* exactly one warning, which names k; with k = 0 there are no warnings.
C7_PartialSurvival ==
    LET n == Len(EntriesOf(parsed))
        pass == PassingEntries(parsed)
        k == n - Len(pass)
    IN  (vpc # "input" /\ n > 0 /\ k < n) =>
            /\ vres.valid
            /\ Len(vres.data[2].capsules[2]) = n - k
            /\ \A i \in 1..(n - k) : SameEntry(vres.data[2].capsules[2][i], pass[i])
            /\ k > 0 => /\ vres.warnings[1] = "array"
                        /\ Len(vres.warnings[2]) = 1
                        /\ vres.warnings[2][1].count = k
            /\ k = 0 => vres.warnings = Undefined

\* C7 witness: three entries, the middle one failing, two returned
C7_Witness ==
    /\ vpc = "validated"
    /\ Len(EntriesOf(parsed)) = 3
    /\ Len(PassingEntries(parsed)) = 2
    /\ ~PassesRequiredCheck(EntriesOf(parsed)[2])
    /\ vres.valid
    /\ vres.warnings # Undefined

\* C8 as the specification states it: validating the data of an accepted
\* payload again is accepted, returns the same capsules field for field in
\* the same order, and no warnings.
C8_RevalidationIdempotent ==
    vpc = "revalidated" =>
        /\ vres2.valid
        /\ vres2.data[2].capsules = vres.data[2].capsules
        /\ vres2.warnings = Undefined

\* a string with no blank at either end
IsTrimmed(r) == r = <<>> \/ (r[1][1] # " " /\ r[Len(r)][1] # " ")

\* a string field as C9 wants it: trimmed, at most 10,000 characters
CleanString(x) == x[1] = "string" /\ IsTrimmed(x[2]) /\ StrLen(x[2]) <= 10000

\* C9 as the specification states it, for one returned capsule.  The string
\* fields tested are those that sanitizeString or an enumeration produces;
\* mediaUrl, which may hold an embedded image, is tested for its scheme only.
C9_CapsuleClean(c) ==
    /\ IsInteger(c[2].year[2])
    /\ \/ c[2].mediaUrl = Undefined
       \/ /\ c[2].mediaUrl[1] = "string"
          /\ \/ StartsWithData(c[2].mediaUrl[2])
             \/ UrlProtocol(c[2].mediaUrl[2]) \in {"http:", "https:"}
    /\ c[2].mediaType \in {Undefined, Word("image"), Word("video"), Word("link")}
    /\ c[2].mood \in {Undefined} \cup Moods
    /\ \/ c[2].tags = Undefined
       \/ /\ c[2].tags[1] = "array"
          /\ \A i \in DOMAIN c[2].tags[2] : CleanString(c[2].tags[2][i])
    /\ \A f \in {"id", "title", "type"} : CleanString(c[2][f])
    /\ \A f \in {"description", "mediaType", "mood"} :
           c[2][f] = Undefined \/ CleanString(c[2][f])

\* C9 as the specification states it: every capsule of an accepted payload
\* has an integer year, a whitelisted mediaUrl, mediaType and mood, tags
\* that are strings, and every string field trimmed and at most 10,000
\* characters long.
C9_SanitizedShape ==
    (vpc # "input" /\ vres.valid) =>
        \A i \in DOMAIN vres.data[2].capsules[2] :
            C9_CapsuleClean(vres.data[2].capsules[2][i])

-----------------------------------------------------------------------------
(* Properties of the import paths and of the share/export codec *)

\* the year of a capsule as a sort key
YearKey(c) == c[2].year[2].int * 10 + c[2].year[2].frac

\* the list is non-decreasing by year
SortedByYear(l) ==
    \A i, j \in DOMAIN l : i < j => YearKey(l[i]) <= YearKey(l[j])

\* both lists hold the same capsules, each as often as the other
SameCapsules(k, l) ==
    /\ Len(k) = Len(l)
    /\ \A x \in Range(k) \cup Range(l) :
          Cardinality({i \in DOMAIN k : k[i] = x})
             = Cardinality({i \in DOMAIN l : l[i] = x})

\* the capsule list an import handed back, <<>> when it handed back none
ImportedCapsules ==
    IF result.kind = "ok" /\ IsArray(Field(result.value, "capsules"))
    THEN Field(result.value, "capsules")[2] ELSE <<>>

\* C1: on every import path (data, url and import parameter, the file
\* import of the import button, importFromURL) the capsule list handed
\* back, and the list saved for an imported timeline, is non-decreasing by
\* year.
C1_EveryImportSorted ==
    ipc = "done" =>
        /\ SortedByYear(ImportedCapsules)
        /\ \A r \in store : SortedByYear(r.capsules)

\* the branch the priority data > url > import gives for the query string
\* the page was opened with
ExpectedPath ==
    IF opened.query.data.kind # "absent" THEN "data"
    ELSE IF opened.query.url.kind # "absent" THEN "url"
    ELSE IF opened.query.import.kind # "absent" THEN "import"
    ELSE "none"

\* the rank of a parameter in that priority
Rank(name) ==
    CASE name = "data" -> 1
      [] name \in {"url", "meta"} -> 2
      [] name = "import" -> 3
      [] OTHER -> 4

\* C2: importFromURLParameter takes the branch of the first present
\* parameter among data, url and import, and answers null when none is
\* present; it asks for no parameter of lower priority than the branch it
\* took, leaves the other parameters in the address, and answers null when
\* the branch taken fails or its parameter is empty, whatever the
\* parameters of lower priority hold.
C2_OnePathByPriority ==
    (opened # EmptyAddress /\ ipc # "idle") =>
        /\ path = ExpectedPath
        /\ \A i \in DOMAIN consulted : Rank(consulted[i]) <= Rank(path)
        /\ \A f \in DOMAIN opened.query :
              f # path => location.query[f] = opened.query[f]
        /\ (ipc = "done" /\ path = "none") => result.kind = "null"
        /\ (ipc = "done" /\ path = "data"
               /\ opened.query.data.kind \in {"empty", "noise"}) =>
              result.kind = "null"
        /\ (ipc = "done" /\ path = "import"
               /\ opened.query.import.kind \in {"empty", "noise"}) =>
              result.kind = "null"
        /\ ipc = "done" => result.kind \in {"ok", "null"}

\* C2 witness: the data parameter is present but empty while url and import
\* both carry a timeline; the data branch was taken and answered null
C2_Witness ==
    /\ ipc = "done"
    /\ opened.query.data.kind = "empty"
    /\ opened.query.url.kind = "href"
    /\ opened.query.import.kind = "b64"
    /\ ~JsonParseThrows(opened.query.import.text)
    /\ path = "data"
    /\ consulted = <<"data">>
    /\ result.kind = "null"

\* the visitor opened the link generateShareableURL returned and the import
\* from it has run
SharedLinkImported ==
    /\ share.called
    /\ ~share.result.needsExternalUrl
    /\ opened = share.result.url
    /\ ipc = "done"

\* C3: for a list of valid capsules (finite numbers) without embedded data:
\* media whose share URL is at most 1900 characters long, the import of the
\* data parameter of the URL generateShareableURL returns yields the same
\* capsules, every field equal, none added or lost, ascending by year.
C3_RoundTrip ==
    (SharedLinkImported /\ \A i \in DOMAIN timeline : ~isDataUrl(timeline[i])) =>
        /\ path = "data"
        /\ result.kind = "ok"
        /\ SameCapsules(ImportedCapsules, timeline)
        /\ SortedByYear(ImportedCapsules)

\* C3 witness: a timeline of three capsules given out of order, two of one
\* year, none with embedded media, came back through the link
C3_Witness ==
    /\ SharedLinkImported
    /\ Len(timeline) = 3
    /\ \A i \in DOMAIN timeline : ~isDataUrl(timeline[i])
    /\ ~SortedByYear(timeline)
    /\ \E i, j \in DOMAIN timeline : i # j /\ YearKey(timeline[i]) = YearKey(timeline[j])
    /\ \E i \in DOMAIN timeline : timeline[i][2].mediaUrl # Undefined
    /\ Len(ImportedCapsules) = 3

\* the capsules a JSON text of ShareData carries
EmittedCapsules(text) == JsonParse(text)[2].capsules[2]

\* the emitted list is the given one with mediaUrl and mediaType undefined
\* on the capsules with embedded media and nothing else changed
StrippedOf(emitted, given) ==
    /\ Len(emitted) = Len(given)
    /\ \A i \in DOMAIN given :
          /\ \A f \in CapsuleFields \ {"mediaUrl", "mediaType"} :
                emitted[i][2][f] = given[i][2][f]
          /\ IF given[i][2].mediaUrl[1] = "string" /\ given[i][2].mediaUrl[2] # <<>>
                /\ given[i][2].mediaUrl[2][1][1] = "data:"
             THEN /\ emitted[i][2].mediaUrl = Undefined
                  /\ emitted[i][2].mediaType = Undefined
             ELSE /\ emitted[i][2].mediaUrl = given[i][2].mediaUrl
                  /\ emitted[i][2].mediaType = given[i][2].mediaType

\* what the shareable exports of the session emitted is the stripped timeline
C4_Emitted ==
    /\ (exported.done /\ exported.shareable) =>
          StrippedOf(EmittedCapsules(exported.text), timeline)
    /\ (share.called /\ ~share.result.needsExternalUrl) =>
          StrippedOf(EmittedCapsules(share.result.url.query.data.text), timeline)

\* C4: in shareable mode (exportAsJSON with shareableMode and
\* generateShareableURL) a capsule whose mediaUrl starts with data: is
\* emitted with mediaUrl and mediaType undefined, every other capsule keeps
\* both, number, order and the other fields are unchanged, and the list
\* given is not changed by the call.
C4_ShareableStripsEmbedded ==
    /\ []C4_Emitted
    /\ [][timeline' = timeline]_vars

\* C4 witness: a shareable export of a timeline that holds a capsule with
\* embedded media between capsules with remote media
C4_Witness ==
    /\ exported.done
    /\ exported.shareable
    /\ Len(timeline) = 3
    /\ isDataUrl(timeline[2])
    /\ timeline[1][2].mediaUrl # Undefined /\ ~isDataUrl(timeline[1])
    /\ EmittedCapsules(exported.text)[2][2].mediaType = Undefined
    /\ EmittedCapsules(exported.text)[1][2].mediaType # Undefined

\* C5: generateShareableURL answers an empty url with needsExternalUrl true
\* exactly when base + '?data=' + token is longer than 1900 characters;
\* otherwise it answers that URL with needsExternalUrl false, a URL of
\* exactly 1900 characters included.
C5_LengthLimit ==
    share.called =>
        /\ share.result.needsExternalUrl = (share.base + 6 + share.len > 1900)
        /\ share.result.needsExternalUrl => share.result.url = EmptyAddress
        /\ ~share.result.needsExternalUrl =>
              /\ share.result.url # EmptyAddress
              /\ share.result.url.base = share.base
              /\ share.result.url.query.data.kind = "lz"
              /\ share.result.url.query.data.len = share.len

\* C5 witness: a share URL of exactly 1900 characters was returned inline
C5_Witness ==
    /\ share.called
    /\ share.base + 6 + share.len = 1900
    /\ ~share.result.needsExternalUrl
    /\ share.result.url # EmptyAddress

-----------------------------------------------------------------------------
(* Properties of the storage *)

\* C10: storage.loadCapsules(id) after storage.saveCapsules(capsules, id)
\* returns the saved capsules ascending by year, whatever order they were
\* saved in.
C10_LoadReturnsSorted ==
    loaded.afterSave =>
        /\ SameCapsules(loaded.capsules, saved.capsules)
        /\ SortedByYear(loaded.capsules)

\* C11: a saveCapsules call on a timeline whose record exists leaves the
\* stored createdAt as it was and sets updatedAt to the time of the call,
\* also when the read inside saveCapsules fails; no saveCapsules or
\* renameTimeline call changes the createdAt of a record that is there
\* before and after it.
C11_CreatedAtPreserved ==
    [][ /\ \A r \in store, q \in store' :
              r.id = q.id => q.createdAt = r.createdAt
        /\ (call'.op = "saveCapsules" /\ ~call'.rejected
               /\ (store' # store \/ call' # call)) =>
              \A q \in store' : q.id = call'.id => q.updatedAt = now' ]_vars

\* C12: every stored timeline record has capsuleCount equal to the length
\* of its capsules list, after any sequence of saveCapsules, renameTimeline
\* and deleteTimeline.
C12_CountIsLength ==
    \A r \in store : r.capsuleCount = Len(r.capsules)

\* C12 witness: a record of three capsules, saved over a record of another
\* length and renamed since, beside a second record
C12_Witness ==
    /\ call.op = "renameTimeline"
    /\ ~call.rejected
    /\ Cardinality(store) = 2
    /\ \E r \in store : /\ r.id = call.id
                        /\ r.capsuleCount = 3
                        /\ r.createdAt < r.updatedAt

\* C13: getAllTimelines returns exactly one metadata entry for every stored
\* record, none for an id that is not stored, ordered by updatedAt
\* non-increasing (when the database can be read).
C13_ListingComplete ==
    (call.op = "getAllTimelines" /\ ~call.failed) =>
        /\ ~call.rejected
        /\ Len(call.listing) = Cardinality(store)
        /\ \A r \in store :
              Cardinality({i \in DOMAIN call.listing :
                              call.listing[i].id = r.id}) = 1
        /\ \A i \in DOMAIN call.listing :
              \E r \in store :
                 /\ call.listing[i].id = r.id
                 /\ call.listing[i].name = r.name
                 /\ call.listing[i].createdAt = r.createdAt
                 /\ call.listing[i].updatedAt = r.updatedAt
                 /\ call.listing[i].capsuleCount = r.capsuleCount
        /\ \A i, j \in DOMAIN call.listing :
              i < j => call.listing[i].updatedAt >= call.listing[j].updatedAt

\* C13 witness: of two timelines created at the same time the one renamed
\* later is listed first; an earlier timeline of the other id was deleted
C13_Witness ==
    /\ call.op = "getAllTimelines"
    /\ ~call.failed
    /\ Len(call.listing) = 2
    /\ call.listing[1].updatedAt > call.listing[2].updatedAt
    /\ call.listing[1].createdAt = call.listing[2].createdAt
    /\ call.listing[1].id = "abc123"

\* what the last load call answered is the record (its capsules), and
\* nothing or the empty list for a missing id and for a failed read
C14_Answers ==
    /\ call.op = "loadTimeline" =>
          /\ ~call.rejected
          /\ call.found = IF call.failed THEN {}
                          ELSE {r \in store : r.id = call.id}
    /\ call.op = "loadCapsules" =>
          /\ ~call.rejected
          /\ loaded.called /\ loaded.id = call.id
          /\ (call.failed \/ ~\E r \in store : r.id = call.id) =>
                loaded.capsules = <<>>
          /\ ~call.failed =>
                \A r \in store : r.id = call.id => loaded.capsules = r.capsules

\* C14: loadCapsules and loadTimeline never reject; for an id without a
\* record and on a storage failure they return the empty list and null;
\* neither changes a stored record.
C14_LoadsNeverReject ==
    /\ []C14_Answers
    /\ [][call'.op \in {"loadTimeline", "loadCapsules"} => store' = store]_vars

\* C14 witness: the read of a stored timeline failed and loadTimeline
\* answered null
C14_Witness ==
    /\ call.op = "loadTimeline"
    /\ call.failed
    /\ \E r \in store : r.id = call.id /\ Len(r.capsules) = 3
    /\ call.found = {}

\* C15: renameTimeline on an id without a record rejects and leaves the
\* store unchanged; on an existing id it changes the name and updatedAt of
\* that record and nothing else.
C15_RenameMissingRejects ==
    [][ (call'.op = "renameTimeline" /\ (store' # store \/ call' # call)) =>
           LET before == {r \in store : r.id = call'.id}
           IN  /\ before = {} => call'.rejected
               /\ call'.rejected => store' = store
               /\ (before # {} /\ ~call'.failed) => ~call'.rejected
               /\ ~call'.rejected =>
                     \E r \in before, newName \in NewNames :
                        store' = (store \ {r}) \cup
                                    {[r EXCEPT !.name = newName,
                                               !.updatedAt = now']} ]_vars

\* C15 witness: a rename of an id that has no record, while the other id
\* has one, was rejected without a storage failure
C15_Witness ==
    /\ call.op = "renameTimeline"
    /\ call.rejected
    /\ ~call.failed
    /\ store # {}
    /\ ~\E r \in store : r.id = call.id

-----------------------------------------------------------------------------
(* Properties of the viewer page *)

\* the import of the page handed back a timeline taken from the data parameter
DataImported == ipc = "done" /\ path = "data" /\ result.kind = "ok"

\* C16: after a successful inline-data import the data parameter is gone
\* from the visible URL, every other query parameter is as it was, and the
\* history has the length it had (the entry is replaced, not pushed); an
\* importFromURLParameter call on the page refreshed afterwards does not
\* take the data branch again.
C16_DataStrippedOnce ==
    /\ DataImported =>
          /\ location.query.data = Absent
          /\ \A f \in DOMAIN opened.query \ {"data"} :
                location.query[f] = opened.query[f]
          /\ location.base = opened.base
          /\ page.historyLength = 1
    /\ (page.previous.path = "data" /\ page.previous.kind = "ok") =>
          /\ opened.query.data = Absent
          /\ page.historyLength = 1
          /\ ipc # "idle" => path # "data"

\* C16 witness: the link carried a data and an import parameter; the data
\* import succeeded, and the import on the refreshed page took the legacy
\* branch
C16_Witness ==
    /\ page.previous.path = "data"
    /\ page.previous.kind = "ok"
    /\ ipc = "done"
    /\ path = "import"
    /\ result.kind = "ok"
    /\ location.query.import = Absent

\* the capsule list a legacy parameter carries: the bare array, or the
\* capsules of the object; <<>> when it carries neither
LegacyCapsules(param) ==
    IF param.kind # "b64" \/ param.text[1] # "json" THEN <<>>
    ELSE LET v == JsonParse(param.text)
         IN  IF v[1] = "array" THEN v[2]
             ELSE IF Field(v, "capsules")[1] = "array"
             THEN Field(v, "capsules")[2]
             ELSE <<>>

\* the page was opened with a legacy import parameter alone, holding the
\* base64 of a bare array of capsules or of an object with a capsules list
LegacyOnly ==
    /\ opened # EmptyAddress
    /\ opened.query.data = Absent
    /\ opened.query.url = Absent
    /\ opened.query.import.kind = "b64"
    /\ opened.query.import.text[1] = "json"
    /\ LET v == JsonParse(opened.query.import.text)
       IN  \/ v[1] = "array"
           \/ Field(v, "capsules")[1] = "array"

\* C17: with the legacy import parameter alone, holding base64 JSON of a
\* bare array of capsules or of an object with a capsules list,
\* importFromURLParameter returns those capsules ascending by year and the
\* import parameter is no longer in the visible URL.
C17_LegacyImport ==
    (LegacyOnly /\ ipc = "done") =>
        /\ path = "import"
        /\ result.kind = "ok"
        /\ SameCapsules(ImportedCapsules, LegacyCapsules(opened.query.import))
        /\ SortedByYear(ImportedCapsules)
        /\ location.query.import = Absent

\* C17 witness: a legacy link with a bare array of two capsules, the later
\* year first, was imported
C17_Witness ==
    /\ LegacyOnly
    /\ ipc = "done"
    /\ page.previous = NoPrevious
    /\ JsonParse(opened.query.import.text)[1] = "array"
    /\ Len(LegacyCapsules(opened.query.import)) = 2
    /\ ~SortedByYear(LegacyCapsules(opened.query.import))
    /\ Len(ImportedCapsules) = 2

\* C18: when the url parameter is taken and the fetch fails, answers a
\* status that is not OK, or answers a text that is not JSON, the import
\* reaches the caller of importFromURLParameter as an error, which the
\* viewer can tell from 'no shared timeline in the URL'; the fetch was
\* made once.
C18_FetchErrorReachesCaller ==
    (ipc = "done" /\ path = "url"
        /\ page.fetched \in {"failed", "not ok", "not json"}) =>
        /\ result.kind = "throw"
        /\ page.shown = "Failed to load shared timeline"
        /\ page.fetches = 1

\* C26: when the import of a present data parameter hands back null (empty
\* value, undecompressable token, invalid JSON, JSON without a capsules
\* list), the visible URL and the history are as they were when the page
\* was opened.
C26_FailedDataImportKeepsUrl ==
    (ipc = "done" /\ path = "data" /\ result.kind = "null") =>
        /\ location = opened
        /\ page.historyLength = 1

-----------------------------------------------------------------------------
(* Properties of the embedding *)

\* C19: in the parent embed script a message whose origin is not exactly
\* the site origin has no effect: after any sequence of messages and
\* animation frames the heights of the iframes, their pending updates and
\* the theme messages sent are what they are when the messages of other
\* origins are left out of the sequence.
C19_UntrustedHasNoEffect == embed = shadow

\* C19 witness: three messages came in, one of them from another origin;
\* an iframe was resized and a theme message was sent
C19_Witness ==
    /\ received.count = 3
    /\ received.foreign
    /\ \E f \in Frames : embed.frames[f].height = 500
    /\ Len(embed.sent) = 1

\* C20: the embedded viewer changes the data-theme attribute of its
\* document on a timecapsule-theme message only when the origin of the
\* message is the site origin.
C20_ThemeFromSiteOnly ==
    [][child'.dataTheme # child.dataTheme => child'.sender = SiteOrigin]_vars

\* the height a resize message asks for: rounded up, and clamped to
\* [200, 10000]
RequestedHeight(height) ==
    LET up == IF height[2].frac = 0 THEN height[2].int ELSE height[2].int + 1
    IN  IF height[2].inf > 0 \/ (height[2].inf = 0 /\ up > 10000) THEN 10000
        ELSE IF height[2].inf < 0 \/ up < 200 THEN 200
        ELSE up

-----------------------------------------------------------------------------
(* Properties of the JSON-file import *)

\* the picked file can be read, parses and passes the validation
FileAccepted(file, t) ==
    /\ importJSONFile(file).kind = "ok"
    /\ validateImportedJSON(importJSONFile(file).value, t).valid

C22_TypeFollowsYear ==
    \A r \in store : \A i \in DOMAIN r.capsules :
        LET c == r.capsules[i][2]
        IN  c.type = Word(getCapsuleType(c.year[2].int, r.updatedAt))

-----------------------------------------------------------------------------
(* The load effect of useTimeline when the timelineId prop changes and     *)
(* when the component unmounts. `loads` lists the runs of the effect in    *)
(* the order they started; the last one is the run of the current          *)
(* timelineId.                                                              *)

\* the capsule lists of the two timelines in storage
HookTimelines ==
    LET clean == Obj(BaseEntry("a", 2020, "past"))
        other == Obj(BaseEntry("b", 1999, "past"))
    IN  {<<>>, Validated(<<clean>>), Validated(<<other>>),
         Validated(<<other, clean>>)}

\* useTimeline("abc123") has rendered once: useState(!readOnly) and the
\* first run of the effect up to its await
InitHook ==
    /\ ValidationIdle
    /\ CodecIdle
    /\ EmbedIdle
    /\ importing = FALSE
    /\ imp = NoImport
    /\ \E k, l \in HookTimelines :
          /\ k # l
          /\ store = saveCapsules(saveCapsules({}, k, "abc123", "My Timeline", 1, FALSE),
                                  l, "def456", "My Timeline", 1, FALSE)
    /\ saved = NoCall
    /\ loaded = NoCall
    /\ call = NoStorageCall
    /\ hook = Hook("abc123", <<>>, TRUE, Null, TRUE)
    /\ loads = << [id |-> "abc123", mounted |-> TRUE, done |-> FALSE] >>
    /\ writes = <<>>
    /\ modal = ClosedModal
    /\ step = Op("mount", "", FALSE, <<>>, 1)
    /\ now = 1

\* the component is rendered with another timelineId: the cleanup of the
\* effect run before, then the new run up to its await (setLoading(true),
\* setError(null), storage.loadCapsules(timelineId) started)
ChangeTimeline ==
    /\ hook.mounted
    /\ step.started < MaxCalls
    /\ \E timelineId \in TimelineIds \ {hook.timelineId} :
          /\ hook' = [hook EXCEPT !.timelineId = timelineId,
                                  !.loading = TRUE, !.error = Null]
          /\ loads' = Append(CleanedUp(loads),
                             [id |-> timelineId, mounted |-> TRUE, done |-> FALSE])
          /\ step' = Op("changeTimeline", timelineId, FALSE, <<>>,
                        step.started + 1)
    /\ UNCHANGED <<valVars, codecVars, storeVars, embedVars, importVars, writes,
                   modal, now>>

\* the component unmounts: the cleanup of the effect
Unmount ==
    /\ hook.mounted
    /\ hook' = [hook EXCEPT !.mounted = FALSE]
    /\ loads' = CleanedUp(loads)
    /\ step' = Op("unmount", "", FALSE, <<>>, step.started)
    /\ UNCHANGED <<valVars, codecVars, storeVars, embedVars, importVars, writes,
                   modal, now>>

NextHook ==
    \/ LoadResolve
    \/ ChangeTimeline
    \/ Unmount

SpecHook == InitHook /\ [][NextHook]_vars

-----------------------------------------------------------------------------
(* Properties of the editor *)

\* no two capsules of the list have the same year
DistinctYears(capsules) ==
    \A i, j \in DOMAIN capsules :
        i # j => Field(capsules[i], "year") # Field(capsules[j], "year")

\* C21: the editor is opened on a timeline whose capsules have distinct
\* years; after any sequence of adds, edits and deletes made through the
\* modal the capsules of the hook, and the capsules stored, still have
\* pairwise distinct years.
C21_OneCapsulePerYear ==
    /\ DistinctYears(hook.capsules)
    /\ \A r \in store : DistinctYears(r.capsules)

\* k and l hold the same capsules, each as often, in whatever order
SameBag(k, l) ==
    /\ Len(k) = Len(l)
    /\ \A c \in Range(k) \cup Range(l) :
          Cardinality({i \in DOMAIN k : k[i] = c})
             = Cardinality({i \in DOMAIN l : l[i] = c})

\* C23: an edit through the modal and updateCapsule of a capsule that is in
\* the list replaces the capsule in place: the list keeps its length; the capsule with the id of the one
\* being edited keeps that id and its createdAt and has updatedAt equal to
\* the time of the edit; every other capsule is as it was.
C23_EditInPlace ==
    [][(/\ step'.name = "updateCapsule"
        /\ \E i \in DOMAIN hook.capsules :
              Field(hook.capsules[i], "id") = Field(modal.editingCapsule, "id")) =>
          /\ Len(hook'.capsules) = Len(hook.capsules)
          /\ \E i \in DOMAIN hook.capsules, j \in DOMAIN hook'.capsules :
                LET old == hook.capsules[i]
                    new == hook'.capsules[j]
                IN  /\ Field(old, "id") = Field(modal.editingCapsule, "id")
                    /\ Field(new, "id") = Field(old, "id")
                    /\ Field(new, "createdAt") = Field(old, "createdAt")
                    /\ Field(new, "updatedAt") = Num(now)
                    /\ SameBag(Without(hook'.capsules, j),
                               Without(hook.capsules, i))]_vars

\* C24: no two storage writes against the same timeline id are in flight
\* at once, whatever the user does in the editor.
C24_OneWriteInFlight ==
    \A i, j \in DOMAIN writes :
        i # j => writes[i].timelineId # writes[j].timelineId

\* C27: an edit through the modal leaves mood, tags and age of the edited
\* capsule as they were.
C27_EditKeepsHiddenFields ==
    [][step'.name = "updateCapsule" =>
          \A i \in DOMAIN hook.capsules :
             Field(hook.capsules[i], "id") = Field(modal.editingCapsule, "id") =>
                \E j \in DOMAIN hook'.capsules :
                   /\ Field(hook'.capsules[j], "id") = Field(hook.capsules[i], "id")
                   /\ \A f \in {"mood", "tags", "age"} :
                         Field(hook'.capsules[j], f) = Field(hook.capsules[i], f)]_vars

\* C28: when a persist step of addCapsule, updateCapsule or deleteCapsule
\* has failed and no other save is under way, the capsule list of the hook
\* is the list stored for the timeline.
C28_FailedSaveKeepsListsEqual ==
    (step.name = "persistFailed" /\ writes = <<>>) =>
        hook.capsules = loadCapsules(store, hook.timelineId, FALSE)

\* the list the hook holds is what storage.loadCapsules gives for the
\* timelineId of the hook
HoldsOwnCapsules(h) ==
    \E readFails \in BOOLEAN :
        h.capsules = loadCapsules(store, h.timelineId, readFails)

\* C29: a loadCapsules result that arrives when its effect run is no longer
\* the current one (the timelineId has changed since) or when the component
\* has unmounted leaves capsules, loading and error of the hook as they
\* were; the result of the current run is written; and whenever the hook
\* is mounted and not loading, in whatever order the loads completed, its
\* list is the list of its own timelineId.
C29_StaleLoadIgnored ==
    /\ [][step'.name = "loadResolve" =>
             IF step'.latest /\ hook.mounted
             THEN /\ step'.id = hook.timelineId
                  /\ hook'.capsules = step'.returned
                  /\ ~hook'.loading
             ELSE hook' = hook]_vars
    /\ []((hook.mounted /\ ~hook.loading) => HoldsOwnCapsules(hook))

\* C29 witness: the load of "abc123" has resolved after the load of
\* "def456", to which the hook had changed, and the hook holds the list of
\* "def456", which is not the list the stale load returned
C29_Witness ==
    /\ step.name = "loadResolve"
    /\ step.id = "abc123"
    /\ ~step.latest
    /\ hook.timelineId = "def456"
    /\ hook.mounted
    /\ ~hook.loading
    /\ step.returned # hook.capsules
    /\ hook.capsules = loadCapsules(store, "def456", FALSE)

=============================================================================
